---- MODULE Spec2Model ----
(***************************************************************************)
(* Model of the restaurant ordering backend (app/modules/*/service.py).    *)
(* The relational store is held in one variable per table.  A service      *)
(* function that issues several store calls is a sequence of steps, one    *)
(* per store call, so that other requests can interleave between them; a   *)
(* function whose store calls cannot be told apart by any other request    *)
(* is one action.  Every store call may raise (parameter fault).           *)
(* Money is counted in whole currency units: the Decimal arithmetic of     *)
(* the code is exact on them and they convert to float without loss.       *)
(***************************************************************************)
EXTENDS Integers, Sequences, FiniteSets, TLC

VARIABLES
    restaurants,        \* table restaurants: id -> [owner_id, active]
    menu_categories,    \* table menu_categories: id -> [restaurant_id, is_active]
    menu_items,         \* table menu_items: id -> [restaurant_id, category_id, base_price, is_available]
    menu_item_sides,    \* table menu_item_sides: id -> [menu_item_id, extra_price, position]
    storage,            \* bucket restaurant-assets: the set of objects [path, size]
    bearer,             \* the bearer token of the request last served, "-" if it had none
    request,            \* the path and body of the side request last served by a route
    fresh,              \* ids handed out so far, per catalog table and for objects
    orders,             \* table orders: id -> [restaurant_id, total_amount, status]
    order_items,        \* table order_items: id -> [order_id, menu_item_id, quantity, price, total_price]
    order_item_sides,   \* table order_item_sides: id -> [order_item_id, menu_item_side_id, extra_price]
    calls,              \* the create_order call of each caller: its position and locals
    resp                \* the last response sent, with the request it answers

vars == <<restaurants, menu_categories, menu_items, menu_item_sides, storage, fresh, orders, order_items,
          order_item_sides, calls, resp, bearer, request>>
catalogVars == <<restaurants, menu_categories, menu_items, menu_item_sides, storage, fresh>>
orderVars == <<orders, order_items, order_item_sides>>

----------------------------------------------------------------------------
\* Bounds of the model.
MaxLines == 2           \* lines of one submission
MaxSides == 2           \* sides of one submission, over all its lines
MaxQty == 2             \* quantity of a line
MaxPrice == 1           \* a declared or catalog price
MaxOrders == 2          \* rows of the orders table
MaxDashboardOrders == 1 \* rows of the orders table where the dashboard requests are checked
MaxCatalogWrites == 1   \* catalog rows created by the catalog services
MaxUploads == 1         \* objects of the bucket

----------------------------------------------------------------------------
\* Plain helpers.
Range(s) == {s[i] : i \in 1..Len(s)}

RECURSIVE SumSeq(_)
SumSeq(s) == IF s = <<>> THEN 0 ELSE Head(s) + SumSeq(Tail(s))

RECURSIVE Flatten(_)
Flatten(ss) == IF ss = <<>> THEN <<>> ELSE Head(ss) \o Flatten(Tail(ss))

Min(S) == CHOOSE x \in S : \A y \in S : x <= y

SeqsUpTo(S, n) == UNION {[1..k -> S] : k \in 0..n}

----------------------------------------------------------------------------
\* Principals and the constants of the order module.
Users == {"u1", "u2"}
OrderIds == 1..4              \* the order identifiers the store can hand out
Callers == {"c1", "c2"}

VALID_STATUSES ==
    {"pending", "confirmed", "preparing", "ready", "delivering", "completed", "canceled"}

HTTP_201_CREATED == 201
HTTP_200_OK == 200
HTTP_204_NO_CONTENT == 204
HTTP_400_BAD_REQUEST == 400
HTTP_403_FORBIDDEN == 403
HTTP_404_NOT_FOUND == 404
HTTP_500_INTERNAL_SERVER_ERROR == 500

\* float(d) of a Decimal d: exact for the whole amounts of the model, which
\* stay far below 2^53.
Float(d) == d

----------------------------------------------------------------------------
\* Submissions (OrderCreate).  A line names a menu item, a quantity > 0, a
\* declared price >= 0 and its sides, each with a declared extra price >= 0.
RestaurantRefs == {1, 3}          \* 1 exists, 3 does not
ItemRefs == {1, 2, 3, 4}          \* 1, 2 of restaurant 1; 3 of restaurant 2; 4 unknown at first
SideRefs == {1, 2, 3, 4}          \* 1, 2 of item 1; 3 of item 2; 4 unknown at first

OrderSideCreate == [menu_item_side_id : SideRefs, extra_price : 0..MaxPrice]

OrderItemCreate ==
    [menu_item_id : ItemRefs, quantity : 1..MaxQty, price : 0..MaxPrice,
     sides : SeqsUpTo(OrderSideCreate, MaxSides)]

NumSides(items) == SumSeq([i \in 1..Len(items) |-> Len(items[i].sides)])

\* The submissions of n lines; the model takes those of at most MaxSides sides.
OrderCreate(n) == [restaurant_id : RestaurantRefs, items : [1..n -> OrderItemCreate]]

\* The narrow submissions used where the order workflow is not what is checked:
\* one line of item 1, without a side or with its side 1.
PlainOrderCreate ==
    {[restaurant_id |-> 1,
      items |-> <<[menu_item_id |-> 1, quantity |-> MaxQty, price |-> MaxPrice,
                   sides |-> sides]>>] :
        sides \in {<<>>, <<[menu_item_side_id |-> 1, extra_price |-> MaxPrice]>>}}

\* One order for each restaurant: the item 1 of restaurant 1, the item 3 of restaurant 2.
DashboardOrderCreate ==
    {[restaurant_id |-> r,
      items |-> <<[menu_item_id |-> (2 * r) - 1, quantity |-> MaxQty, price |-> MaxPrice,
                   sides |-> <<>>]>>] : r \in {1, 2}}

NoData == [restaurant_id |-> 0, items |-> <<>>]

----------------------------------------------------------------------------
\* Responses and call records.
NoResp ==
    [op |-> "none", code |-> 0, detail |-> "-", fault |-> "none", user |-> "-", order_id |-> 0,
     status |-> "-", prev |-> "-", total_amount |-> 0, data |-> NoData,
     items |-> <<>>, arg |-> <<>>, seen |-> {}, target |-> <<>>, patch |-> {},
     size |-> 0, object |-> <<>>, body |-> [none |-> 0], menu |-> <<>>,
     header |-> "-", url |-> [kind |-> "-", expires_in |-> 0]]

NoRequest == [item_id |-> 0, side_id |-> 0, body_item |-> 0]

IdleCall ==
    [pc |-> "idle", data |-> NoData, order_id |-> 0, i |-> 0, j |-> 0,
     order_item_id |-> 0, total_amount |-> 0, items |-> <<>>]

\* A slip: every end of the call answers 201.
CreateResp_created(call, code, detail, fault) ==
    [NoResp EXCEPT !.op = "create_order", !.code = HTTP_201_CREATED,
                   !.fault = IF fault THEN "store" ELSE "none",
                   !.data = call.data, !.order_id = call.order_id]

CreateResp(call, code, detail, fault) ==
    [NoResp EXCEPT !.op = "create_order", !.code = code, !.detail = detail,
                   !.fault = IF fault THEN "store" ELSE "none",
                   !.data = call.data, !.order_id = call.order_id]

----------------------------------------------------------------------------
\* create_order, steps 1 to 3: the validation reads.

\* A slip: the lookup also filters on is_active.
RestaurantExists_active(restaurant_id) ==
    restaurant_id \in DOMAIN restaurants /\ restaurants[restaurant_id].is_active = 1

\* Step 1: .single() raises when no row matches; every exception is a 404.
RestaurantExists(restaurant_id) == restaurant_id \in DOMAIN restaurants

menu_item_ids(data) == [i \in 1..Len(data.items) |-> data.items[i].menu_item_id]

\* .in_("id", ids): the rows whose id is one of ids, each once.
SelectIn(table, ids) == DOMAIN table \cap Range(ids)

\* Step 2, first test: some row came back and as many rows as requested ids.
ItemsFound(data) ==
    LET rows == SelectIn(menu_items, menu_item_ids(data))
    IN  rows # {} /\ Cardinality(rows) = Len(menu_item_ids(data))

\* A slip: the restaurant of the returned rows is not compared.
ItemsBelong_any_restaurant(data) == TRUE

\* Step 2, second test: every returned row is of the submitted restaurant.
ItemsBelong(data) ==
    \A id \in SelectIn(menu_items, menu_item_ids(data)) :
        menu_items[id].restaurant_id = data.restaurant_id

\* Step 3: the (side, item) pairs of the submission, in line order.
all_sides(data) ==
    Flatten([i \in 1..Len(data.items) |->
        [j \in 1..Len(data.items[i].sides) |->
            [side_id |-> data.items[i].sides[j].menu_item_side_id,
             menu_item_id |-> data.items[i].menu_item_id]]])

side_ids(data) == [k \in 1..Len(all_sides(data)) |-> all_sides(data)[k].side_id]

SidesFound(data) ==
    LET rows == SelectIn(menu_item_sides, side_ids(data))
    IN  rows # {} /\ Cardinality(rows) = Len(side_ids(data))

\* A slip: the sides are only looked up, not compared with their line's item.
SidesBelong_any_item(data) ==
    \A k \in 1..Len(all_sides(data)) : all_sides(data)[k].side_id \in DOMAIN menu_item_sides

\* side_to_item.get(side_id) = menu_item_id for every pair.
SidesBelong(data) ==
    \A k \in 1..Len(all_sides(data)) :
        LET p == all_sides(data)[k]
        IN  /\ p.side_id \in DOMAIN menu_item_sides
            /\ menu_item_sides[p.side_id].menu_item_id = p.menu_item_id

----------------------------------------------------------------------------
\* create_order, step 5: the amounts of a line, in Decimal.
item_sides_total(item) ==
    SumSeq([j \in 1..Len(item.sides) |-> item.sides[j].extra_price])

\* A slip: the sides are added once, not once per unit.
item_total_sides_once(item) == item.price * item.quantity + item_sides_total(item)

item_total(item) == (item.price + item_sides_total(item)) * item.quantity

\* A slip: the line is attached to the order inserted last, as if the order
\* id were kept in a variable shared by the requests.
order_item_data_of_last_order(order_id, item) ==
    [order_id |-> CHOOSE o \in DOMAIN orders : \A p \in DOMAIN orders : p <= o,
     menu_item_id |-> item.menu_item_id,
     quantity |-> item.quantity, price |-> Float(item.price),
     total_price |-> Float(item_total(item))]

\* The row create_order inserts for a line, and for a side of a line.
order_item_data(order_id, item) ==
    [order_id |-> order_id, menu_item_id |-> item.menu_item_id,
     quantity |-> item.quantity, price |-> Float(item.price),
     total_price |-> Float(item_total(item))]

side_data(order_item_id, side) ==
    [order_item_id |-> order_item_id, menu_item_side_id |-> side.menu_item_side_id,
     extra_price |-> Float(side.extra_price)]

\* A slip: the order is inserted as already confirmed.
order_data_confirmed(data) ==
    [restaurant_id |-> data.restaurant_id, total_amount |-> 0, status |-> "confirmed"]

\* The row create_order inserts in step 4.
order_data(data) ==
    [restaurant_id |-> data.restaurant_id, total_amount |-> 0, status |-> "pending"]

\* The store gives an inserted row the next id of its table (order items and
\* order sides are never deleted); an order gets a fresh UUID of the pool.
NextId(table) == Cardinality(DOMAIN table) + 1

Insert(table, id, row) == [k \in DOMAIN table \cup {id} |-> IF k = id THEN row ELSE table[k]]

----------------------------------------------------------------------------
\* create_order as steps.  Fail ends the call of c with an error response.
Fail(c, code, detail, fault) ==
    /\ resp' = CreateResp(calls[c], code, detail, fault)
    /\ calls' = [calls EXCEPT ![c] = IdleCall]

\* The request arrives with its body.
StartCreateOrder(c, S, limit) ==
    /\ calls[c].pc = "idle"
    /\ Cardinality(DOMAIN orders) < limit
    /\ \E data \in S : calls' = [calls EXCEPT ![c] = [IdleCall EXCEPT !.pc = "step1", !.data = data]]
    /\ UNCHANGED <<catalogVars, orderVars, resp>>

\* Step 1: the restaurant exists, else 404 (also when the lookup raises).
CreateOrderStep1(c, fault) ==
    /\ calls[c].pc = "step1"
    /\ IF fault \/ ~RestaurantExists(calls[c].data.restaurant_id)
         THEN Fail(c, HTTP_404_NOT_FOUND, "Restaurant not found", fault)
         ELSE /\ calls' = [calls EXCEPT ![c].pc = "step2"]
              /\ UNCHANGED resp
    /\ UNCHANGED <<catalogVars, orderVars>>

\* Step 2: the menu items of the lines.
CreateOrderStep2(c, fault) ==
    /\ calls[c].pc = "step2"
    /\ IF fault THEN Fail(c, HTTP_500_INTERNAL_SERVER_ERROR, "Error validating menu items", TRUE)
       ELSE IF ~ItemsFound(calls[c].data)
         THEN Fail(c, HTTP_400_BAD_REQUEST, "One or more menu items not found", FALSE)
       ELSE IF ~ItemsBelong(calls[c].data)
         THEN Fail(c, HTTP_400_BAD_REQUEST, "Menu item does not belong to this restaurant", FALSE)
         ELSE /\ calls' = [calls EXCEPT ![c].pc = "step3"]
              /\ UNCHANGED resp
    /\ UNCHANGED <<catalogVars, orderVars>>

\* Step 3: the sides of the lines; no query when the submission has no side.
CreateOrderStep3(c, fault) ==
    /\ calls[c].pc = "step3"
    /\ IF all_sides(calls[c].data) = <<>>
         THEN /\ calls' = [calls EXCEPT ![c].pc = "step4"]
              /\ UNCHANGED resp
       ELSE IF fault THEN Fail(c, HTTP_500_INTERNAL_SERVER_ERROR, "Error validating sides", TRUE)
       ELSE IF ~SidesFound(calls[c].data)
         THEN Fail(c, HTTP_400_BAD_REQUEST, "One or more sides not found", FALSE)
       ELSE IF ~SidesBelong(calls[c].data)
         THEN Fail(c, HTTP_400_BAD_REQUEST, "Side does not belong to menu item", FALSE)
         ELSE /\ calls' = [calls EXCEPT ![c].pc = "step4"]
              /\ UNCHANGED resp
    /\ UNCHANGED <<catalogVars, orderVars>>

\* Step 4: insert the order row, total 0 and status pending.
CreateOrderStep4(c, fault, ids) ==
    /\ calls[c].pc = "step4"
    /\ IF fault
         THEN /\ Fail(c, HTTP_500_INTERNAL_SERVER_ERROR, "Error creating order", TRUE)
              /\ UNCHANGED orders
         ELSE \E id \in ids :
              /\ orders' = Insert(orders, id, order_data(calls[c].data))
              /\ calls' = [calls EXCEPT ![c].pc = "step5", ![c].order_id = id, ![c].i = 1]
              /\ UNCHANGED resp
    /\ UNCHANGED <<catalogVars, order_items, order_item_sides>>

\* After the line i (and its sides): the next line, or step 6.
AfterLine(call) ==
    IF call.i < Len(call.data.items)
      THEN [call EXCEPT !.pc = "step5", !.i = call.i + 1, !.j = 0]
      ELSE [call EXCEPT !.pc = "step6", !.j = 0]

\* Step 5, per line: add the line to the running total and insert its row.
CreateOrderStep5Item(c, fault) ==
    /\ calls[c].pc = "step5"
    /\ LET call == calls[c]
           item == call.data.items[call.i]
           id == NextId(order_items)
           acc == [call EXCEPT !.total_amount = call.total_amount + item_total(item)]
       IN  IF fault
             THEN /\ Fail(c, HTTP_500_INTERNAL_SERVER_ERROR, "Error creating order items", TRUE)
                  /\ UNCHANGED order_items
             ELSE /\ order_items' = Insert(order_items, id, order_item_data(call.order_id, item))
                  /\ calls' = [calls EXCEPT ![c] =
                        LET ins == [acc EXCEPT !.order_item_id = id, !.items = Append(call.items, id)]
                        IN  IF item.sides = <<>> THEN AfterLine(ins)
                                                 ELSE [ins EXCEPT !.pc = "step5_side", !.j = 1]]
                  /\ UNCHANGED resp
    /\ UNCHANGED <<catalogVars, orders, order_item_sides>>

\* Step 5, per side of the line: insert its row.
CreateOrderStep5Side(c, fault) ==
    /\ calls[c].pc = "step5_side"
    /\ LET call == calls[c]
           item == call.data.items[call.i]
           side == item.sides[call.j]
       IN  IF fault
             THEN /\ Fail(c, HTTP_500_INTERNAL_SERVER_ERROR, "Error creating order items", TRUE)
                  /\ UNCHANGED order_item_sides
             ELSE /\ order_item_sides' =
                        Insert(order_item_sides, NextId(order_item_sides),
                               side_data(call.order_item_id, side))
                  /\ calls' = [calls EXCEPT ![c] =
                        IF call.j < Len(item.sides) THEN [call EXCEPT !.j = call.j + 1]
                                                    ELSE AfterLine(call)]
                  /\ UNCHANGED resp
    /\ UNCHANGED <<catalogVars, orders, order_items>>

\* A slip: the row is written back whole, with the status of its insert.
total_update_with_status(total_amount) ==
    [total_amount |-> Float(total_amount), status |-> "pending"]

\* A slip: the total of the insert is written back, not the accumulated one.
total_update_stale(total_amount) == [total_amount |-> 0]

\* Step 6: write the total; the updated row is the response.
total_update(total_amount) == [total_amount |-> Float(total_amount)]

Update(table, id, patch) ==
    [k \in DOMAIN table |->
        IF k = id THEN [f \in DOMAIN table[k] |->
                          IF f \in DOMAIN patch THEN patch[f] ELSE table[k][f]]
                  ELSE table[k]]

CreateOrderStep6(c, fault) ==
    /\ calls[c].pc = "step6"
    /\ LET call == calls[c]
       IN  IF fault
             THEN /\ Fail(c, HTTP_500_INTERNAL_SERVER_ERROR, "Error finalizing order", TRUE)
                  /\ UNCHANGED orders
           ELSE IF call.order_id \notin DOMAIN orders
             THEN /\ Fail(c, HTTP_400_BAD_REQUEST, "Failed to update order total", FALSE)
                  /\ UNCHANGED orders
             ELSE /\ orders' = Update(orders, call.order_id, total_update(call.total_amount))
                  /\ resp' = [CreateResp(call, HTTP_201_CREATED, "-", FALSE) EXCEPT
                                !.total_amount = orders'[call.order_id].total_amount,
                                !.status = orders'[call.order_id].status,
                                !.items = call.items]
                  /\ calls' = [calls EXCEPT ![c] = IdleCall]
    /\ UNCHANGED <<catalogVars, order_items, order_item_sides>>

\* The identifiers a new order can get: any unused one, or the lowest of them
\* where the identifier plays no part.
FreshOrderIds == OrderIds \ DOMAIN orders
NextOrderId == IF FreshOrderIds = {} THEN {} ELSE {Min(FreshOrderIds)}

create_order(c, ids) ==
    \E fault \in BOOLEAN :
        \/ CreateOrderStep1(c, fault)
        \/ CreateOrderStep2(c, fault)
        \/ CreateOrderStep3(c, fault)
        \/ CreateOrderStep4(c, fault, ids)
        \/ CreateOrderStep5Item(c, fault)
        \/ CreateOrderStep5Side(c, fault)
        \/ CreateOrderStep6(c, fault)

----------------------------------------------------------------------------
\* update_order_status.  The requests carry any status string; "delivered"
\* and "" stand for the strings outside VALID_STATUSES.
StatusInputs == VALID_STATUSES \cup {"delivered", ""}

\* verify_order_ownership: the order joined with its restaurant; the lookup
\* raises when no row matches, and every exception is a 404.
OrderLookup(order_id) ==
    order_id \in DOMAIN orders /\ orders[order_id].restaurant_id \in DOMAIN restaurants

OrderOwner(order_id) == restaurants[orders[order_id].restaurant_id].owner_id

\* A slip: the whole row is reset to its state at creation, with the new status.
status_update_row(status) == [status |-> status, total_amount |-> 0]

\* The fields update_order_status writes.
status_update(status) == [status |-> status]

\* A slip: the status is not tested against the fixed set.
StatusValid_any(status) == TRUE

StatusValid(status) == status \in VALID_STATUSES

\* A slip: every authenticated user passes the ownership test.
IsOwner_any(user_id, order_id) == TRUE

IsOwner(user_id, order_id) == OrderOwner(order_id) = user_id

\* The ids of the order items of an order, in id order (the response items).
RECURSIVE SortedSeq(_)
SortedSeq(S) == IF S = {} THEN <<>> ELSE <<Min(S)>> \o SortedSeq(S \ {Min(S)})

ItemsOfOrder(order_id) ==
    SortedSeq({k \in DOMAIN order_items : order_items[k].order_id = order_id})

StatusResp(user_id, order_id, status, fault, code, detail) ==
    [NoResp EXCEPT !.op = "update_order_status", !.code = code, !.detail = detail,
                   !.fault = fault,
                   !.user = user_id, !.order_id = order_id, !.status = status,
                   !.prev = IF order_id \in DOMAIN orders THEN orders[order_id].status ELSE "-"]

\* A slip: the ownership lookup runs first, the status is tested after it.
update_order_status_lookup_first(user_id, order_id, status, fault) ==
    /\ IF fault = "lookup" \/ ~OrderLookup(order_id)
         THEN /\ resp' = StatusResp(user_id, order_id, status, fault, HTTP_404_NOT_FOUND, "Order not found")
              /\ UNCHANGED orders
       ELSE IF ~IsOwner(user_id, order_id)
         THEN /\ resp' = StatusResp(user_id, order_id, status, fault, HTTP_403_FORBIDDEN,
                                    "You don't have access to this order")
              /\ UNCHANGED orders
       ELSE IF ~StatusValid(status)
         THEN /\ resp' = StatusResp(user_id, order_id, status, fault, HTTP_400_BAD_REQUEST, "Invalid status")
              /\ UNCHANGED orders
       ELSE IF fault = "update"
         THEN /\ resp' = StatusResp(user_id, order_id, status, fault, HTTP_500_INTERNAL_SERVER_ERROR,
                                    "Error updating order")
              /\ UNCHANGED orders
         ELSE /\ orders' = Update(orders, order_id, status_update(status))
              /\ resp' = IF fault = "hydrate"
                           THEN StatusResp(user_id, order_id, status, fault,
                                           HTTP_500_INTERNAL_SERVER_ERROR, "Error updating order")
                           ELSE [StatusResp(user_id, order_id, status, fault, HTTP_200_OK, "-") EXCEPT
                                   !.total_amount = orders'[order_id].total_amount,
                                   !.items = ItemsOfOrder(order_id)]
    /\ UNCHANGED <<catalogVars, order_items, order_item_sides, calls>>

\* fault: the store call that raises, if any ("lookup", "update", "hydrate").
update_order_status(user_id, order_id, status, fault) ==
    /\ IF ~StatusValid(status)
         THEN /\ resp' = StatusResp(user_id, order_id, status, fault, HTTP_400_BAD_REQUEST, "Invalid status")
              /\ UNCHANGED orders
       ELSE IF fault = "lookup" \/ ~OrderLookup(order_id)
         THEN /\ resp' = StatusResp(user_id, order_id, status, fault, HTTP_404_NOT_FOUND, "Order not found")
              /\ UNCHANGED orders
       ELSE IF ~IsOwner(user_id, order_id)
         THEN /\ resp' = StatusResp(user_id, order_id, status, fault, HTTP_403_FORBIDDEN,
                                    "You don't have access to this order")
              /\ UNCHANGED orders
       ELSE IF fault = "update"
         THEN /\ resp' = StatusResp(user_id, order_id, status, fault, HTTP_500_INTERNAL_SERVER_ERROR,
                                    "Error updating order")
              /\ UNCHANGED orders
         ELSE /\ orders' = Update(orders, order_id, status_update(status))
              /\ resp' = IF fault = "hydrate"
                           THEN StatusResp(user_id, order_id, status, fault,
                                           HTTP_500_INTERNAL_SERVER_ERROR, "Error updating order")
                           ELSE [StatusResp(user_id, order_id, status, fault, HTTP_200_OK, "-") EXCEPT
                                   !.total_amount = orders'[order_id].total_amount,
                                   !.items = ItemsOfOrder(order_id)]
    /\ UNCHANGED <<catalogVars, order_items, order_item_sides, calls>>

\* The requests name a stored order or the next identifier, not stored yet.
UpdateOrderStatusOf(statuses, faults) ==
    \E user_id \in Users, order_id \in DOMAIN orders \cup NextOrderId, status \in statuses,
       fault \in faults :
        update_order_status(user_id, order_id, status, fault)

UpdateOrderStatus == UpdateOrderStatusOf(StatusInputs, {"none", "lookup", "update", "hydrate"})

----------------------------------------------------------------------------
\* get_order_by_code.  Texts are sequences of characters; Alphabet lists
\* the characters of the model in code point order.
Alphabet ==
    <<"-", "0", "1", "2", "3", "4", "5", "6", "7", "8", "9",
      "A", "B", "C", "D", "E", "F", "a", "b", "c", "d", "e", "f", "z">>

CodePoints == [ch \in Range(Alphabet) |-> CHOOSE i \in 1..Len(Alphabet) : Alphabet[i] = ch]
Ord(ch) == CodePoints[ch]

HexDigits == {"0", "1", "2", "3", "4", "5", "6", "7", "8", "9", "a", "b", "c", "d", "e", "f"}
UpperHex == {"A", "B", "C", "D", "E", "F"}

Lower(ch) ==
    CASE ch = "A" -> "a" [] ch = "B" -> "b" [] ch = "C" -> "c"
      [] ch = "D" -> "d" [] ch = "E" -> "e" [] ch = "F" -> "f" [] OTHER -> ch

Rep(ch, n) == [i \in 1..n |-> ch]

CodeLen == 8        \* len(code) != 8
UuidLen == 36       \* 8-4-4-4-12 and four hyphens

\* f"{code}-0000-0000-0000-000000000000" and f"{code}-ffff-ffff-ffff-ffffffffffff"
start_uuid(code) ==
    code \o <<"-">> \o Rep("0", 4) \o <<"-">> \o Rep("0", 4) \o <<"-">> \o Rep("0", 4)
         \o <<"-">> \o Rep("0", 12)

end_uuid(code) ==
    code \o <<"-">> \o Rep("f", 4) \o <<"-">> \o Rep("f", 4) \o <<"-">> \o Rep("f", 4)
         \o <<"-">> \o Rep("f", 12)

\* The uuid column: a text is a uuid when it has hex digits of either case
\* in the 8-4-4-4-12 layout; the stored value is its lower-case form, and
\* uuids compare digit by digit.
Hyphens == {9, 14, 19, 24}

IsUuid(text) ==
    /\ Len(text) = UuidLen
    /\ \A i \in 1..UuidLen :
          IF i \in Hyphens THEN text[i] = "-" ELSE text[i] \in HexDigits \cup UpperHex

ToUuid(text) == [i \in 1..Len(text) |-> Lower(text[i])]

RECURSIVE UuidLeq(_, _)
UuidLeq(a, b) ==
    IF a = <<>> \/ b = <<>> THEN a = <<>>
    ELSE IF Ord(Head(a)) # Ord(Head(b)) THEN Ord(Head(a)) < Ord(Head(b))
    ELSE UuidLeq(Tail(a), Tail(b))

\* The identifiers of the orders, as the store generates them (version 4).
Abcd123(ch) == <<"a", "b", "c", "d", "1", "2", "3", ch>>

OrderUuid ==
    <<Abcd123("4") \o <<"-">> \o Rep("0", 4) \o <<"-", "4">> \o Rep("0", 3) \o <<"-", "8">>
          \o Rep("0", 3) \o <<"-">> \o Rep("0", 12),
      Abcd123("4") \o <<"-">> \o Rep("f", 4) \o <<"-", "4">> \o Rep("f", 3) \o <<"-", "b">>
          \o Rep("f", 3) \o <<"-">> \o Rep("f", 12),
      Abcd123("5") \o <<"-">> \o Rep("0", 4) \o <<"-", "4">> \o Rep("0", 3) \o <<"-", "8">>
          \o Rep("0", 3) \o <<"-">> \o Rep("0", 12),
      Abcd123("3") \o <<"-">> \o Rep("f", 4) \o <<"-", "4">> \o Rep("f", 3) \o <<"-", "b">>
          \o Rep("f", 3) \o <<"-">> \o Rep("f", 12)>>

\* The codes of the requests: the codes of the stored identifiers, one in
\* upper case, the code of no identifier, one that is no hex text, and two
\* of another length.
Codes ==
    {Abcd123("4"), Abcd123("5"), Abcd123("3"), Abcd123("2"),
     <<"A", "B", "C", "D", "1", "2", "3", "4">>,
     <<"z", "b", "c", "d", "1", "2", "3", "4">>,
     <<"a", "b", "c", "d", "1", "2", "3">>,
     <<>>}

\* .gte("id", start_uuid).lte("id", end_uuid): the rows of the range.
RangeScan(code) ==
    LET lo == ToUuid(start_uuid(code))
        hi == ToUuid(end_uuid(code))
    IN  {o \in DOMAIN orders : UuidLeq(lo, OrderUuid[o]) /\ UuidLeq(OrderUuid[o], hi)}

\* A slip: the first row is returned without the test of its identifier.
startswith_any(text, prefix) == TRUE

\* str.startswith
startswith(text, prefix) ==
    Len(prefix) <= Len(text) /\ SubSeq(text, 1, Len(prefix)) = prefix

\* A slip: the handler has no "except HTTPException: raise", so the 404 raised
\* inside the try block is caught with the other exceptions.
reraise_as_500(http) == HTTP_500_INTERNAL_SERVER_ERROR

\* except HTTPException: raise -- the status raised inside the try block is
\* the status of the response.
reraise(http) == http

CodeResp(code, fault, http, detail) ==
    [NoResp EXCEPT !.op = "get_order_by_code", !.code = http, !.detail = detail,
                   !.fault = fault, !.arg = code, !.seen = DOMAIN orders]

\* fault: the store call that raises, if any ("range", "items").  The store
\* returns the rows of the range in no stated order: any of them is first.
get_order_by_code(code, fault) ==
    /\ IF code = <<>> \/ Len(code) # CodeLen
         THEN resp' = CodeResp(code, fault, HTTP_400_BAD_REQUEST, "Invalid order code format")
       ELSE IF fault = "range" \/ ~IsUuid(start_uuid(code)) \/ ~IsUuid(end_uuid(code))
         THEN resp' = CodeResp(code, fault, HTTP_500_INTERNAL_SERVER_ERROR, "Error fetching order")
       ELSE IF RangeScan(code) = {}
         THEN resp' = CodeResp(code, fault, reraise(HTTP_404_NOT_FOUND), "Order not found")
         ELSE \E order \in RangeScan(code) :
                IF ~startswith(OrderUuid[order], code)
                  THEN resp' = CodeResp(code, fault, reraise(HTTP_404_NOT_FOUND), "Order not found")
                ELSE IF fault = "items"
                  THEN resp' = CodeResp(code, fault, HTTP_500_INTERNAL_SERVER_ERROR,
                                        "Error fetching order")
                  ELSE resp' = [CodeResp(code, fault, HTTP_200_OK, "-") EXCEPT
                                  !.order_id = order,
                                  !.status = orders[order].status,
                                  !.total_amount = orders[order].total_amount,
                                  !.items = ItemsOfOrder(order)]
    /\ UNCHANGED <<catalogVars, orderVars, calls>>

GetOrderByCode ==
    \E code \in Codes, fault \in {"none", "range", "items"} : get_order_by_code(code, fault)

----------------------------------------------------------------------------
\* The catalog services.  A patch (MenuCategoryUpdate, MenuItemUpdate,
\* MenuSideUpdate, SideUpdate) has every field, None where the request leaves
\* it out.  A boolean column holds 1 or 0, a position 0 or 1.
None == -1

Bool == {0, 1}
Positions == {0, 1}

\* Categories 1 and 2 are stored at the start, 3 is not.
CategoryRefs == {1, 2, 3}

MenuCategoryCreate == [restaurant_id : RestaurantRefs \cup {2}, is_active : Bool]
MenuCategoryUpdate == [is_active : Bool \cup {None}]

MenuItemCreate ==
    [restaurant_id : RestaurantRefs \cup {2}, category_id : CategoryRefs,
     base_price : 0..MaxPrice, is_available : Bool]
MenuItemUpdate ==
    [category_id : CategoryRefs \cup {None}, base_price : 0..MaxPrice \cup {None},
     is_available : Bool \cup {None}]
MenuSideUpdate == [extra_price : 0..MaxPrice \cup {None}, position : Positions \cup {None}]

\* The fields a patch sends: those the request gives a value.
Sent(data) == {f \in DOMAIN data : data[f] # None}

\* A slip: the null fields of the patch are kept.
update_data_with_nulls(data) == data

\* {k: v for k, v in data.model_dump().items() if v is not None}
update_data(data) == [k \in {f \in DOMAIN data : data[f] # None} |-> data[k]]

Delete(table, id) == [k \in DOMAIN table \ {id} |-> table[k]]

\* The response of a catalog service, with the request it answers: the
\* caller, the ids of the request (target), the fields its patch sets and the
\* store call that raised.
CatalogResp(op, user_id, target, patch, fault, code, detail) ==
    [NoResp EXCEPT !.op = op, !.code = code, !.detail = detail, !.user = user_id,
                   !.target = target, !.patch = patch, !.fault = fault]

\* menu_items joined with restaurants (inner): the row and its owner.
ItemLookup(item_id) ==
    item_id \in DOMAIN menu_items /\ menu_items[item_id].restaurant_id \in DOMAIN restaurants

ItemOwner(item_id) == restaurants[menu_items[item_id].restaurant_id].owner_id

\* menu_item_sides joined with menu_items and restaurants (inner).
SideLookup(side_id) ==
    side_id \in DOMAIN menu_item_sides /\ ItemLookup(menu_item_sides[side_id].menu_item_id)

SideOwner(side_id) == ItemOwner(menu_item_sides[side_id].menu_item_id)

\* A slip: a lookup that raises counts as access.
verify_restaurant_ownership_open(user_id, restaurant_id, fault) ==
    \/ fault = "lookup"
    \/ restaurant_id \in DOMAIN restaurants /\ restaurants[restaurant_id].owner_id = user_id

\* menu_categories.service: a lookup that raises counts as no access.
verify_restaurant_ownership(user_id, restaurant_id, fault) ==
    /\ fault # "lookup"
    /\ restaurant_id \in DOMAIN restaurants
    /\ restaurants[restaurant_id].owner_id = user_id

\* menu_sides.service
verify_item_ownership(user_id, item_id, fault) ==
    fault # "lookup" /\ ItemLookup(item_id) /\ ItemOwner(item_id) = user_id

\* sides.service
verify_menu_item_ownership(user_id, menu_item_id, fault) ==
    fault # "lookup" /\ ItemLookup(menu_item_id) /\ ItemOwner(menu_item_id) = user_id

\* menu_items.service
create_item(user_id, data, fault) ==
    /\ IF ~verify_restaurant_ownership(user_id, data.restaurant_id, fault)
         THEN /\ resp' = CatalogResp("create_item", user_id, <<data.restaurant_id>>, {}, fault, HTTP_403_FORBIDDEN,
                                     "You don't have access to this restaurant")
              /\ UNCHANGED <<menu_items, fresh>>
       ELSE IF fault = "write"
         THEN /\ resp' = CatalogResp("create_item", user_id, <<data.restaurant_id>>, {}, fault,
                                     HTTP_500_INTERNAL_SERVER_ERROR, "Database error")
              /\ UNCHANGED <<menu_items, fresh>>
         ELSE LET id == fresh.menu_items + 1
              IN  /\ menu_items' = Insert(menu_items, id, data)
                  /\ fresh' = [fresh EXCEPT !.menu_items = id]
                  /\ resp' = CatalogResp("create_item", user_id, <<data.restaurant_id>>, {}, fault, HTTP_200_OK, "-")
    /\ UNCHANGED <<restaurants, storage, menu_categories, menu_item_sides, orderVars, calls>>

update_item(user_id, item_id, data, fault) ==
    /\ IF fault = "lookup" \/ ~ItemLookup(item_id)
         THEN /\ resp' = CatalogResp("update_item", user_id, <<item_id>>, Sent(data), fault, HTTP_404_NOT_FOUND,
                                     "Menu item not found")
              /\ UNCHANGED menu_items
       ELSE IF ItemOwner(item_id) # user_id
         THEN /\ resp' = CatalogResp("update_item", user_id, <<item_id>>, Sent(data), fault, HTTP_403_FORBIDDEN,
                                     "You don't have access to this item")
              /\ UNCHANGED menu_items
       ELSE IF DOMAIN update_data(data) = {}
         THEN /\ resp' = CatalogResp("update_item", user_id, <<item_id>>, Sent(data), fault, HTTP_400_BAD_REQUEST,
                                     "No fields to update")
              /\ UNCHANGED menu_items
       ELSE IF fault = "write"
         THEN /\ resp' = CatalogResp("update_item", user_id, <<item_id>>, Sent(data), fault,
                                     HTTP_500_INTERNAL_SERVER_ERROR, "Database error")
              /\ UNCHANGED menu_items
         ELSE /\ menu_items' = Update(menu_items, item_id, update_data(data))
              /\ resp' = CatalogResp("update_item", user_id, <<item_id>>, Sent(data), fault, HTTP_200_OK, "-")
    /\ UNCHANGED <<restaurants, storage, menu_categories, menu_item_sides, fresh, orderVars, calls>>

delete_item(user_id, item_id, fault) ==
    /\ IF fault = "lookup" \/ ~ItemLookup(item_id)
         THEN /\ resp' = CatalogResp("delete_item", user_id, <<item_id>>, {}, fault, HTTP_404_NOT_FOUND,
                                     "Menu item not found")
              /\ UNCHANGED menu_items
       ELSE IF ItemOwner(item_id) # user_id
         THEN /\ resp' = CatalogResp("delete_item", user_id, <<item_id>>, {}, fault, HTTP_403_FORBIDDEN,
                                     "You don't have access to this item")
              /\ UNCHANGED menu_items
       ELSE IF fault = "write"
         THEN /\ resp' = CatalogResp("delete_item", user_id, <<item_id>>, {}, fault,
                                     HTTP_500_INTERNAL_SERVER_ERROR, "Database error")
              /\ UNCHANGED menu_items
         ELSE /\ menu_items' = Delete(menu_items, item_id)
              /\ resp' = CatalogResp("delete_item", user_id, <<item_id>>, {}, fault, HTTP_204_NO_CONTENT, "-")
    /\ UNCHANGED <<restaurants, storage, menu_categories, menu_item_sides, fresh, orderVars, calls>>

\* menu_sides.service: the side is found through its own id.
MenuSideCreate == [menu_item_id : ItemRefs, extra_price : 0..MaxPrice, position : Positions]

menu_sides_create_side(user_id, data, fault) ==
    /\ IF ~verify_item_ownership(user_id, data.menu_item_id, fault)
         THEN /\ resp' = CatalogResp("menu_sides.create_side", user_id, <<data.menu_item_id>>, {}, fault,
                                     HTTP_403_FORBIDDEN, "You don't have access to this menu item")
              /\ UNCHANGED <<menu_item_sides, fresh>>
       ELSE IF fault = "write"
         THEN /\ resp' = CatalogResp("menu_sides.create_side", user_id, <<data.menu_item_id>>, {}, fault,
                                     HTTP_500_INTERNAL_SERVER_ERROR, "Database error")
              /\ UNCHANGED <<menu_item_sides, fresh>>
         ELSE LET id == fresh.menu_item_sides + 1
              IN  /\ menu_item_sides' = Insert(menu_item_sides, id, data)
                  /\ fresh' = [fresh EXCEPT !.menu_item_sides = id]
                  /\ resp' = CatalogResp("menu_sides.create_side", user_id, <<data.menu_item_id>>, {}, fault,
                                         HTTP_200_OK, "-")
    /\ UNCHANGED <<restaurants, storage, menu_categories, menu_items, orderVars, calls>>

menu_sides_update_side(user_id, side_id, data, fault) ==
    /\ IF fault = "lookup" \/ ~SideLookup(side_id)
         THEN /\ resp' = CatalogResp("menu_sides.update_side", user_id, <<side_id>>, Sent(data), fault,
                                     HTTP_404_NOT_FOUND, "Side not found")
              /\ UNCHANGED menu_item_sides
       ELSE IF SideOwner(side_id) # user_id
         THEN /\ resp' = CatalogResp("menu_sides.update_side", user_id, <<side_id>>, Sent(data), fault,
                                     HTTP_403_FORBIDDEN, "You don't have access to this side")
              /\ UNCHANGED menu_item_sides
       ELSE IF DOMAIN update_data(data) = {}
         THEN /\ resp' = CatalogResp("menu_sides.update_side", user_id, <<side_id>>, Sent(data), fault,
                                     HTTP_400_BAD_REQUEST, "No fields to update")
              /\ UNCHANGED menu_item_sides
       ELSE IF fault = "write"
         THEN /\ resp' = CatalogResp("menu_sides.update_side", user_id, <<side_id>>, Sent(data), fault,
                                     HTTP_500_INTERNAL_SERVER_ERROR, "Database error")
              /\ UNCHANGED menu_item_sides
         ELSE /\ menu_item_sides' = Update(menu_item_sides, side_id, update_data(data))
              /\ resp' = CatalogResp("menu_sides.update_side", user_id, <<side_id>>, Sent(data), fault,
                                     HTTP_200_OK, "-")
    /\ UNCHANGED <<restaurants, storage, menu_categories, menu_items, fresh, orderVars, calls>>

menu_sides_delete_side(user_id, side_id, fault) ==
    /\ IF fault = "lookup" \/ ~SideLookup(side_id)
         THEN /\ resp' = CatalogResp("menu_sides.delete_side", user_id, <<side_id>>, {}, fault,
                                     HTTP_404_NOT_FOUND, "Side not found")
              /\ UNCHANGED menu_item_sides
       ELSE IF SideOwner(side_id) # user_id
         THEN /\ resp' = CatalogResp("menu_sides.delete_side", user_id, <<side_id>>, {}, fault,
                                     HTTP_403_FORBIDDEN, "You don't have access to this side")
              /\ UNCHANGED menu_item_sides
       ELSE IF fault = "write"
         THEN /\ resp' = CatalogResp("menu_sides.delete_side", user_id, <<side_id>>, {}, fault,
                                     HTTP_500_INTERNAL_SERVER_ERROR, "Database error")
              /\ UNCHANGED menu_item_sides
         ELSE /\ menu_item_sides' = Delete(menu_item_sides, side_id)
              /\ resp' = CatalogResp("menu_sides.delete_side", user_id, <<side_id>>, {}, fault,
                                     HTTP_204_NO_CONTENT, "-")
    /\ UNCHANGED <<restaurants, storage, menu_categories, menu_items, fresh, orderVars, calls>>

\* sides.service: the side is found under the menu item of the path.
SideCreate == [extra_price : 0..MaxPrice, position : Positions]
SideUpdate == [extra_price : 0..MaxPrice \cup {None}, position : Positions \cup {None}]

\* A slip: the side is looked up by its id alone.
SideOfItem_any_item(side_id, menu_item_id) == side_id \in DOMAIN menu_item_sides

SideOfItem(side_id, menu_item_id) ==
    side_id \in DOMAIN menu_item_sides /\ menu_item_sides[side_id].menu_item_id = menu_item_id

\* A slip: the body keeps the menu_item_id it came with.
menu_sides_routes_create_side_of_body(item_id, data, user_id, fault) ==
    menu_sides_create_side(user_id, data, fault)

\* The route POST /menu/items/{item_id}/sides of the menu_sides router:
\* data.menu_item_id = item_id, then the service.
menu_sides_routes_create_side(item_id, data, user_id, fault) ==
    menu_sides_create_side(user_id, [data EXCEPT !.menu_item_id = item_id], fault)

sides_create_side(menu_item_id, user_id, data, fault) ==
    /\ IF ~verify_menu_item_ownership(user_id, menu_item_id, fault)
         THEN /\ resp' = CatalogResp("sides.create_side", user_id, <<menu_item_id>>, {}, fault,
                                     HTTP_403_FORBIDDEN, "Vous n'avez pas acces a ce plat")
              /\ UNCHANGED <<menu_item_sides, fresh>>
       ELSE IF fault = "write"
         THEN /\ resp' = CatalogResp("sides.create_side", user_id, <<menu_item_id>>, {}, fault,
                                     HTTP_500_INTERNAL_SERVER_ERROR, "Erreur base de donnees")
              /\ UNCHANGED <<menu_item_sides, fresh>>
         ELSE LET id == fresh.menu_item_sides + 1
              IN  /\ menu_item_sides' =
                        Insert(menu_item_sides, id,
                               [menu_item_id |-> menu_item_id, extra_price |-> data.extra_price,
                                position |-> data.position])
                  /\ fresh' = [fresh EXCEPT !.menu_item_sides = id]
                  /\ resp' = CatalogResp("sides.create_side", user_id, <<menu_item_id>>, {}, fault, HTTP_200_OK, "-")
    /\ UNCHANGED <<restaurants, storage, menu_categories, menu_items, orderVars, calls>>

sides_update_side(menu_item_id, side_id, user_id, data, fault) ==
    /\ IF ~verify_menu_item_ownership(user_id, menu_item_id, fault)
         THEN /\ resp' = CatalogResp("sides.update_side", user_id, <<menu_item_id, side_id>>, Sent(data), fault,
                                     HTTP_403_FORBIDDEN, "Vous n'avez pas acces a ce plat")
              /\ UNCHANGED menu_item_sides
       ELSE IF fault = "find" \/ ~SideOfItem(side_id, menu_item_id)
         THEN /\ resp' = CatalogResp("sides.update_side", user_id, <<menu_item_id, side_id>>, Sent(data), fault,
                                     HTTP_404_NOT_FOUND, "Accompagnement non trouve")
              /\ UNCHANGED menu_item_sides
       ELSE IF DOMAIN update_data(data) = {}
         THEN /\ resp' = CatalogResp("sides.update_side", user_id, <<menu_item_id, side_id>>, Sent(data), fault,
                                     HTTP_400_BAD_REQUEST, "Aucun champ a mettre a jour")
              /\ UNCHANGED menu_item_sides
       ELSE IF fault = "write"
         THEN /\ resp' = CatalogResp("sides.update_side", user_id, <<menu_item_id, side_id>>, Sent(data), fault,
                                     HTTP_500_INTERNAL_SERVER_ERROR, "Erreur base de donnees")
              /\ UNCHANGED menu_item_sides
         ELSE /\ menu_item_sides' = Update(menu_item_sides, side_id, update_data(data))
              /\ resp' = CatalogResp("sides.update_side", user_id, <<menu_item_id, side_id>>, Sent(data), fault, HTTP_200_OK, "-")
    /\ UNCHANGED <<restaurants, storage, menu_categories, menu_items, fresh, orderVars, calls>>

sides_delete_side(menu_item_id, side_id, user_id, fault) ==
    /\ IF ~verify_menu_item_ownership(user_id, menu_item_id, fault)
         THEN /\ resp' = CatalogResp("sides.delete_side", user_id, <<menu_item_id, side_id>>, {}, fault,
                                     HTTP_403_FORBIDDEN, "Vous n'avez pas acces a ce plat")
              /\ UNCHANGED menu_item_sides
       ELSE IF fault = "find" \/ ~SideOfItem(side_id, menu_item_id)
         THEN /\ resp' = CatalogResp("sides.delete_side", user_id, <<menu_item_id, side_id>>, {}, fault,
                                     HTTP_404_NOT_FOUND, "Accompagnement non trouve")
              /\ UNCHANGED menu_item_sides
       ELSE IF fault = "write"
         THEN /\ resp' = CatalogResp("sides.delete_side", user_id, <<menu_item_id, side_id>>, {}, fault,
                                     HTTP_500_INTERNAL_SERVER_ERROR, "Erreur base de donnees")
              /\ UNCHANGED menu_item_sides
         ELSE /\ menu_item_sides' = Delete(menu_item_sides, side_id)
              /\ resp' = CatalogResp("sides.delete_side", user_id, <<menu_item_id, side_id>>, {}, fault, HTTP_200_OK, "-")
    /\ UNCHANGED <<restaurants, storage, menu_categories, menu_items, fresh, orderVars, calls>>

\* menu_categories.service: the category joined with restaurants (inner).
CategoryLookup(category_id) ==
    /\ category_id \in DOMAIN menu_categories
    /\ menu_categories[category_id].restaurant_id \in DOMAIN restaurants

CategoryOwner(category_id) == restaurants[menu_categories[category_id].restaurant_id].owner_id

create_category(user_id, data, fault) ==
    /\ IF ~verify_restaurant_ownership(user_id, data.restaurant_id, fault)
         THEN /\ resp' = CatalogResp("create_category", user_id, <<data.restaurant_id>>, {}, fault,
                                     HTTP_403_FORBIDDEN, "You don't have access to this restaurant")
              /\ UNCHANGED <<menu_categories, fresh>>
       ELSE IF fault = "write"
         THEN /\ resp' = CatalogResp("create_category", user_id, <<data.restaurant_id>>, {}, fault,
                                     HTTP_500_INTERNAL_SERVER_ERROR, "Database error")
              /\ UNCHANGED <<menu_categories, fresh>>
         ELSE LET id == fresh.menu_categories + 1
              IN  /\ menu_categories' = Insert(menu_categories, id, data)
                  /\ fresh' = [fresh EXCEPT !.menu_categories = id]
                  /\ resp' = CatalogResp("create_category", user_id, <<data.restaurant_id>>, {}, fault,
                                         HTTP_200_OK, "-")
    /\ UNCHANGED <<restaurants, storage, menu_items, menu_item_sides, orderVars, calls>>

update_category(user_id, category_id, data, fault) ==
    /\ IF fault = "lookup" \/ ~CategoryLookup(category_id)
         THEN /\ resp' = CatalogResp("update_category", user_id, <<category_id>>, Sent(data),
                                     fault, HTTP_404_NOT_FOUND, "Category not found")
              /\ UNCHANGED menu_categories
       ELSE IF CategoryOwner(category_id) # user_id
         THEN /\ resp' = CatalogResp("update_category", user_id, <<category_id>>, Sent(data),
                                     fault, HTTP_403_FORBIDDEN, "You don't have access to this category")
              /\ UNCHANGED menu_categories
       ELSE IF DOMAIN update_data(data) = {}
         THEN /\ resp' = CatalogResp("update_category", user_id, <<category_id>>, Sent(data),
                                     fault, HTTP_400_BAD_REQUEST, "No fields to update")
              /\ UNCHANGED menu_categories
       ELSE IF fault = "write"
         THEN /\ resp' = CatalogResp("update_category", user_id, <<category_id>>, Sent(data),
                                     fault, HTTP_500_INTERNAL_SERVER_ERROR, "Database error")
              /\ UNCHANGED menu_categories
         ELSE /\ menu_categories' = Update(menu_categories, category_id, update_data(data))
              /\ resp' = CatalogResp("update_category", user_id, <<category_id>>, Sent(data),
                                     fault, HTTP_200_OK, "-")
    /\ UNCHANGED <<restaurants, storage, menu_items, menu_item_sides, fresh, orderVars, calls>>

delete_category(user_id, category_id, fault) ==
    /\ IF fault = "lookup" \/ ~CategoryLookup(category_id)
         THEN /\ resp' = CatalogResp("delete_category", user_id, <<category_id>>, {}, fault,
                                     HTTP_404_NOT_FOUND, "Category not found")
              /\ UNCHANGED menu_categories
       ELSE IF CategoryOwner(category_id) # user_id
         THEN /\ resp' = CatalogResp("delete_category", user_id, <<category_id>>, {}, fault,
                                     HTTP_403_FORBIDDEN, "You don't have access to this category")
              /\ UNCHANGED menu_categories
       ELSE IF fault = "write"
         THEN /\ resp' = CatalogResp("delete_category", user_id, <<category_id>>, {}, fault,
                                     HTTP_500_INTERNAL_SERVER_ERROR, "Database error")
              /\ UNCHANGED menu_categories
         ELSE /\ menu_categories' = Delete(menu_categories, category_id)
              /\ resp' = CatalogResp("delete_category", user_id, <<category_id>>, {}, fault,
                                     HTTP_204_NO_CONTENT, "-")
    /\ UNCHANGED <<restaurants, storage, menu_items, menu_item_sides, fresh, orderVars, calls>>

\* The listings of the dashboard.  The rows returned are in resp.seen, by id;
\* "write" stands for the listing query raising.
ListResp(op, user_id, target, fault, code, detail, rows) ==
    [CatalogResp(op, user_id, target, {}, fault, code, detail) EXCEPT !.seen = rows]

List(op, user_id, target, fault, verified, denied, rows) ==
    /\ resp' = IF ~verified THEN ListResp(op, user_id, target, fault, HTTP_403_FORBIDDEN, denied, {})
               ELSE IF fault = "write"
                 THEN ListResp(op, user_id, target, fault, HTTP_500_INTERNAL_SERVER_ERROR,
                               "Database error", {})
                 ELSE ListResp(op, user_id, target, fault, HTTP_200_OK, "-", rows)
    /\ UNCHANGED <<catalogVars, orderVars, calls>>

get_categories(user_id, restaurant_id, fault) ==
    List("get_categories", user_id, <<restaurant_id>>, fault,
         verify_restaurant_ownership(user_id, restaurant_id, fault),
         "You don't have access to this restaurant",
         {c \in DOMAIN menu_categories : menu_categories[c].restaurant_id = restaurant_id})

get_items(user_id, restaurant_id, fault) ==
    List("get_items", user_id, <<restaurant_id>>, fault,
         verify_restaurant_ownership(user_id, restaurant_id, fault),
         "You don't have access to this restaurant",
         {i \in DOMAIN menu_items : menu_items[i].restaurant_id = restaurant_id})

get_sides(menu_item_id, user_id, fault) ==
    List("get_sides", user_id, <<menu_item_id>>, fault,
         verify_menu_item_ownership(user_id, menu_item_id, fault),
         "Vous n'avez pas acces a ce plat",
         {x \in DOMAIN menu_item_sides : menu_item_sides[x].menu_item_id = menu_item_id})

get_restaurant_orders(user_id, restaurant_id, fault) ==
    List("get_restaurant_orders", user_id, <<restaurant_id>>, fault,
         verify_restaurant_ownership(user_id, restaurant_id, fault),
         "You don't have access to this restaurant",
         {o \in DOMAIN orders : orders[o].restaurant_id = restaurant_id})

----------------------------------------------------------------------------
\* uploads.service.  A filename is a sequence of characters and the content of
\* a file is known by its length.
ALLOWED_EXTENSIONS ==
    {<<"j", "p", "g">>, <<"j", "p", "e", "g">>, <<"p", "n", "g">>, <<"g", "i", "f">>,
     <<"w", "e", "b", "p">>}

MAX_FILE_SIZE == 5 * 1024 * 1024

\* str.lower, on the capitals the filenames of the model hold.
Capitals == [J |-> "j", P |-> "p", G |-> "g", N |-> "n"]
lower(text) ==
    [i \in 1..Len(text) |-> IF text[i] \in DOMAIN Capitals THEN Capitals[text[i]] ELSE text[i]]

\* filename.split(".")[-1]: what follows the last dot, the whole name when it
\* has no dot.
split_last(text) ==
    LET dots == {i \in 1..Len(text) : text[i] = "."}
        last == IF dots = {} THEN 0 ELSE CHOOSE i \in dots : \A j \in dots : j <= i
    IN  SubSeq(text, last + 1, Len(text))

\* validate_file: the extension when the file passes, else the 400 raised.
validate_file(file) ==
    IF file.filename = <<>>
      THEN [ok |-> FALSE, detail |-> "Le nom du fichier est requis", extension |-> <<>>]
    ELSE IF lower(split_last(file.filename)) \notin ALLOWED_EXTENSIONS
      THEN [ok |-> FALSE, detail |-> "Type de fichier non autorise", extension |-> <<>>]
      ELSE [ok |-> TRUE, detail |-> "-", extension |-> lower(split_last(file.filename))]

\* A slip: a file of exactly MAX_FILE_SIZE is refused as well.
too_large_from_limit(content_length) == content_length >= MAX_FILE_SIZE

\* len(content) > MAX_FILE_SIZE
too_large(content_length) == content_length > MAX_FILE_SIZE

UploadResp(op, user_id, file, folder, fault, code, detail, path) ==
    [NoResp EXCEPT !.op = op, !.user = user_id, !.arg = file.filename, !.size = file.size,
                   !.status = folder, !.fault = fault, !.code = code, !.detail = detail,
                   !.object = path]

\* expires_in=3600
SIGNED_URL_EXPIRES_IN == 3600

\* The URL returned once the object is stored: upload_file_to_storage
\* returns the public URL; the menu-image upload returns the signed URL of
\* the response of create_signed_url, or the public URL when that response
\* carries none (fault "unsigned").
ReturnedUrl(op, fault) ==
    IF op = "upload_menu_image_with_signed_url" /\ fault # "unsigned"
    THEN [kind |-> "signed", expires_in |-> SIGNED_URL_EXPIRES_IN]
    ELSE [kind |-> "public", expires_in |-> 0]

\* Both upload services: validation, the size test, then the storage calls.
\* fault: the storage call that raises, if any: "upload", or "url" for what
\* follows the upload (get_public_url, create_signed_url); "unsigned" is a
\* response of create_signed_url without signed URL.
Upload(op, file, folder, user_id, fault) ==
    LET valid == validate_file(file)
        unique_filename == <<folder, user_id, fresh.objects + 1, valid.extension>>
    IN  /\ IF ~valid.ok
             THEN /\ resp' = UploadResp(op, user_id, file, folder, fault, HTTP_400_BAD_REQUEST,
                                        valid.detail, <<>>)
                  /\ UNCHANGED <<storage, fresh>>
           ELSE IF too_large(file.size)
             THEN /\ resp' = UploadResp(op, user_id, file, folder, fault, HTTP_400_BAD_REQUEST,
                                        "Fichier trop volumineux", <<>>)
                  /\ UNCHANGED <<storage, fresh>>
           ELSE IF fault = "upload"
             THEN /\ resp' = UploadResp(op, user_id, file, folder, fault,
                                        HTTP_500_INTERNAL_SERVER_ERROR, "Erreur lors de l'upload", <<>>)
                  /\ UNCHANGED <<storage, fresh>>
             ELSE /\ storage' = storage \cup {[path |-> unique_filename, size |-> file.size]}
                  /\ fresh' = [fresh EXCEPT !.objects = @ + 1]
                  /\ resp' = IF fault = "url"
                               THEN UploadResp(op, user_id, file, folder, fault,
                                               HTTP_500_INTERNAL_SERVER_ERROR,
                                               "Erreur lors de l'upload", <<>>)
                               ELSE [UploadResp(op, user_id, file, folder, fault, HTTP_200_OK,
                                                "-", unique_filename)
                                       EXCEPT !.url = ReturnedUrl(op, fault)]
        /\ UNCHANGED <<restaurants, menu_categories, menu_items, menu_item_sides, orderVars, calls>>

upload_file_to_storage(file, folder, user_id, fault) ==
    Upload("upload_file_to_storage", file, folder, user_id, fault)

upload_menu_image_with_signed_url(file, user_id, fault) ==
    Upload("upload_menu_image_with_signed_url", file, "menu-images", user_id, fault)

----------------------------------------------------------------------------
\* The public services.  Of the columns of restaurants the model keeps the
\* key, the owner, the flags, the slug and one column of each kind of select
\* list: name and phone (in both lists), email (in one), created_at (in none).
RestaurantRow(owner_id, slug, is_active, is_onboarded, created_at) ==
    [owner_id |-> owner_id, slug |-> slug, name |-> slug, phone |-> "p", email |-> owner_id,
     is_active |-> is_active, is_onboarded |-> is_onboarded, created_at |-> created_at]

Slugs == {"r1", "r2", "r3"}

\* A slip: the select list names the owner.
PUBLIC_INFO_COLUMNS_with_owner == {"name", "slug", "phone", "owner_id"}

\* public.service: .select("name, slug, ..., phone, whatsapp")
PUBLIC_INFO_COLUMNS == {"name", "slug", "phone"}

\* restaurants.service: .select("id, name, slug, ..., phone, whatsapp, email")
PUBLIC_RESPONSE_COLUMNS == {"id", "name", "slug", "phone", "email"}

\* The columns of a row that a select list names.
Select(table, id, columns) == [c \in columns |-> IF c = "id" THEN id ELSE table[id][c]]

\* .eq("slug", slug).eq("is_active", True), and .eq("is_onboarded", True)
\* where onboarded is asked for.
ActiveBySlug(table, slug, onboarded) ==
    {r \in DOMAIN table : /\ table[r].slug = slug
                          /\ table[r].is_active = 1
                          /\ onboarded => table[r].is_onboarded = 1}

\* .single() and what the services make of it: no data or the no-rows error
\* of the store is a 404, any other error of the lookup (fault "restaurant")
\* a 500.  The slug is unique.
RestaurantBySlug(table, slug, onboarded, columns, fault, not_found) ==
    LET found == ActiveBySlug(table, slug, onboarded)
    IN  IF fault = "restaurant"
          THEN [code |-> HTTP_500_INTERNAL_SERVER_ERROR, detail |-> "Erreur base de donnees",
                id |-> 0, body |-> NoResp.body]
        ELSE IF found = {}
          THEN [code |-> HTTP_404_NOT_FOUND, detail |-> not_found, id |-> 0, body |-> NoResp.body]
          ELSE LET id == CHOOSE r \in found : TRUE
               IN  [code |-> HTTP_200_OK, detail |-> "-", id |-> id,
                    body |-> Select(table, id, columns)]

PublicResp(op, slug, fault, found, menu) ==
    [NoResp EXCEPT !.op = op, !.status = slug, !.fault = fault, !.code = found.code,
                   !.detail = found.detail, !.body = found.body, !.menu = menu]

\* What each lookup answers over a restaurants table.
public_restaurant(table, slug, fault) ==
    RestaurantBySlug(table, slug, FALSE, PUBLIC_INFO_COLUMNS, fault, "Restaurant non trouve")

restaurants_public_restaurant(table, slug, fault) ==
    RestaurantBySlug(table, slug, TRUE, PUBLIC_RESPONSE_COLUMNS, fault,
                     "Restaurant non trouve ou non disponible")

\* public.service
get_public_restaurant_by_slug(slug, fault) ==
    /\ resp' = PublicResp("public.get_public_restaurant_by_slug", slug, fault,
                          public_restaurant(restaurants, slug, fault), <<>>)
    /\ UNCHANGED <<catalogVars, orderVars, calls>>

\* restaurants.service
restaurants_get_public_restaurant_by_slug(slug, fault) ==
    /\ resp' = PublicResp("restaurants.get_public_restaurant_by_slug", slug, fault,
                          restaurants_public_restaurant(restaurants, slug, fault), <<>>)
    /\ UNCHANGED <<catalogVars, orderVars, calls>>

\* sorted(sides, key=position): a stable sort, so sides of one position
\* keep the order the store gave them, taken to be the order of their ids.
RECURSIVE sorted(_, _)
sorted(seq, key) ==
    IF seq = <<>> THEN <<>>
    ELSE LET least == CHOOSE i \in 1..Len(seq) :
                         /\ \A j \in 1..Len(seq) : key[seq[i]] <= key[seq[j]]
                         /\ \A j \in 1..(i - 1) : key[seq[j]] # key[seq[i]]
         IN  <<seq[least]>> \o
             sorted([k \in 1..(Len(seq) - 1) |-> IF k < least THEN seq[k] ELSE seq[k + 1]], key)

\* A slip: the sides come as the store gave them.
sides_unsorted(item_id) ==
    LET embedded == SortedSeq({x \in DOMAIN menu_item_sides :
                                 menu_item_sides[x].menu_item_id = item_id})
    IN  [k \in 1..Len(embedded) |->
            [id |-> embedded[k], extra_price |-> menu_item_sides[embedded[k]].extra_price]]

\* The sides of a listed item: the embedded menu_item_sides rows, by position.
sides_of(item_id) ==
    LET embedded == SortedSeq({x \in DOMAIN menu_item_sides :
                                 menu_item_sides[x].menu_item_id = item_id})
        position == [x \in DOMAIN menu_item_sides |-> menu_item_sides[x].position]
        sides == sorted(embedded, position)
    IN  [k \in 1..Len(sides) |->
            [id |-> sides[k], extra_price |-> menu_item_sides[sides[k]].extra_price]]

\* A slip: a query that raised is answered as if it had not.
rows_despite_error(raised, rows) == rows

\* except Exception: categories = [] (items = [])
rows_or_empty(raised, rows) == IF raised THEN <<>> ELSE rows

\* public.service.  fault: the query that raises, if any: "restaurant",
\* "categories" or "items".  The model has no position of categories and
\* items: .order("position") gives them in the order of their ids.
get_public_menu_by_slug(slug, fault) ==
    LET restaurant == RestaurantBySlug(restaurants, slug, FALSE, PUBLIC_INFO_COLUMNS, fault,
                                       "Restaurant non trouve")
        restaurant_id == restaurant.id
        categories ==
            rows_or_empty(fault = "categories",
                          SortedSeq({c \in DOMAIN menu_categories :
                                       /\ menu_categories[c].restaurant_id = restaurant_id
                                       /\ menu_categories[c].is_active = 1}))
        items ==
            rows_or_empty(fault = "items",
                          SortedSeq({i \in DOMAIN menu_items :
                                       /\ menu_items[i].restaurant_id = restaurant_id
                                       /\ menu_items[i].is_available = 1}))
        category_items(category) ==
            LET of_category(i) == menu_items[i].category_id = category
                listed == SelectSeq(items, of_category)
            IN  [k \in 1..Len(listed) |->
                    [id |-> listed[k], price |-> menu_items[listed[k]].base_price,
                     sides |-> sides_of(listed[k])]]
        menu_structure ==
            [k \in 1..Len(categories) |->
                [category_id |-> categories[k], items |-> category_items(categories[k])]]
    IN  /\ resp' = IF restaurant.code # HTTP_200_OK
                     THEN PublicResp("get_public_menu_by_slug", slug, fault, restaurant, <<>>)
                     ELSE PublicResp("get_public_menu_by_slug", slug, fault, restaurant,
                                     menu_structure)
        /\ UNCHANGED <<catalogVars, orderVars, calls>>

----------------------------------------------------------------------------
\* The store after the owners have set up their catalog, and no order yet.
InitMenuRows ==
    /\ menu_categories = (1 :> [restaurant_id |-> 1, is_active |-> 1]) @@
                         (2 :> [restaurant_id |-> 2, is_active |-> 1])
    /\ menu_items =
          (1 :> [restaurant_id |-> 1, category_id |-> 1, base_price |-> 1, is_available |-> 1]) @@
          (2 :> [restaurant_id |-> 1, category_id |-> 1, base_price |-> 0, is_available |-> 1]) @@
          (3 :> [restaurant_id |-> 2, category_id |-> 2, base_price |-> 1, is_available |-> 1])
    /\ menu_item_sides = (1 :> [menu_item_id |-> 1, extra_price |-> 1, position |-> 1]) @@
                         (2 :> [menu_item_id |-> 1, extra_price |-> 0, position |-> 0]) @@
                         (3 :> [menu_item_id |-> 2, extra_price |-> 1, position |-> 0])
    /\ storage = {}
    /\ bearer = "-"
    /\ request = NoRequest
    /\ fresh = [menu_categories |-> 2, menu_items |-> 3, menu_item_sides |-> 3, objects |-> 0]

InitCatalog ==
    /\ restaurants = (1 :> RestaurantRow("u1", "r1", 1, 1, 0)) @@
                     (2 :> RestaurantRow("u2", "r2", 1, 1, 0))
    /\ InitMenuRows

InitOrders ==
    /\ orders = <<>>
    /\ order_items = <<>>
    /\ order_item_sides = <<>>

\* SpecCreate: one create_order request, of any submission, runs to its end.
InitCreate ==
    /\ InitCatalog
    /\ InitOrders
    /\ \E n \in 1..MaxLines : \E data \in OrderCreate(n) :
          /\ NumSides(data.items) <= MaxSides
          /\ calls = [c \in Callers |->
                        IF c = "c1" THEN [IdleCall EXCEPT !.pc = "step1", !.data = data]
                                    ELSE IdleCall]
    /\ resp = NoResp

NextCreate == create_order("c1", NextOrderId) /\ UNCHANGED <<bearer, request>>

SpecCreate == InitCreate /\ [][NextCreate]_vars

\* SpecConcurrent: two create_order requests run at the same time, their
\* store operations interleaved in any order.
ConcurrentOrderCreate ==
    PlainOrderCreate \cup
    {[restaurant_id |-> 1,
      items |-> <<[menu_item_id |-> 2, quantity |-> 1, price |-> MaxPrice, sides |-> <<>>],
                  [menu_item_id |-> 1, quantity |-> 1, price |-> 0,
                   sides |-> <<[menu_item_side_id |-> 2, extra_price |-> MaxPrice]>>]>>],
     [restaurant_id |-> 2,
      items |-> <<[menu_item_id |-> 3, quantity |-> 1, price |-> MaxPrice, sides |-> <<>>]>>]}

InitConcurrent ==
    /\ InitCatalog
    /\ InitOrders
    /\ \E data \in [Callers -> ConcurrentOrderCreate] :
          calls = [c \in Callers |-> [IdleCall EXCEPT !.pc = "step1", !.data = data[c]]]
    /\ resp = NoResp

NextConcurrent == \E c \in Callers : create_order(c, NextOrderId) /\ UNCHANGED <<bearer, request>>

SpecConcurrent == InitConcurrent /\ [][NextConcurrent]_vars

\* SpecActive: one create_order request of one line, for restaurants that
\* are active or not, onboarded or not.
InitActive ==
    /\ \E active \in [{1, 2} -> Bool], is_onboarded \in Bool :
          restaurants = (1 :> RestaurantRow("u1", "r1", active[1], is_onboarded, 0)) @@
                        (2 :> RestaurantRow("u2", "r2", active[2], 1, 0))
    /\ InitMenuRows
    /\ InitOrders
    /\ \E data \in OrderCreate(1) :
          /\ NumSides(data.items) <= MaxSides
          /\ calls = [c \in Callers |->
                        IF c = "c1" THEN [IdleCall EXCEPT !.pc = "step1", !.data = data]
                                    ELSE IdleCall]
    /\ resp = NoResp

SpecActive == InitActive /\ [][NextCreate]_vars

\* Spec: orders are placed, one request at a time, and the users of the
\* dashboard set their status.
Init ==
    /\ InitCatalog
    /\ InitOrders
    /\ calls = [c \in Callers |-> IdleCall]
    /\ resp = NoResp

Next ==
    \/ StartCreateOrder("c1", DashboardOrderCreate, MaxDashboardOrders) /\ UNCHANGED <<bearer, request>>
    \/ create_order("c1", NextOrderId) /\ UNCHANGED <<bearer, request>>
    \/ UpdateOrderStatus /\ UNCHANGED <<bearer, request>>

Spec == Init /\ [][Next]_vars

\* SpecCode: orders are placed, with any identifier the store can generate,
\* and tracked by code.
NextCode ==
    \/ StartCreateOrder("c1", PlainOrderCreate, MaxOrders) /\ UNCHANGED <<bearer, request>>
    \/ create_order("c1", FreshOrderIds) /\ UNCHANGED <<bearer, request>>
    \/ GetOrderByCode /\ UNCHANGED <<bearer, request>>

SpecCode == Init /\ [][NextCode]_vars

\* SpecCatalog: an order is placed while the owners edit their catalog and
\* set the status of the order.  The store hands out at most
\* MaxCatalogWrites new catalog rows.
CatalogRowsCreated ==
    (fresh.menu_categories - 2) + (fresh.menu_items - 3) + (fresh.menu_item_sides - 3)

\* The store call that raises, if any: the ownership lookup or the write;
\* in sides.service also the lookup of the side under its item ("find").
CatalogFaults == {"none", "lookup", "write"}

\* The requests of a specification: R.users call, R.faults are the store
\* calls that may raise, and the other fields are the ids and bodies sent.
CatalogWrite(R) ==
    \E user_id \in R.users :
        \/ \E data \in R.item_create, fault \in R.faults :
              CatalogRowsCreated < MaxCatalogWrites /\ create_item(user_id, data, fault)
        \/ \E item_id \in R.items, data \in R.item_update, fault \in R.faults :
              update_item(user_id, item_id, data, fault)
        \/ \E item_id \in R.items, fault \in R.faults : delete_item(user_id, item_id, fault)
        \/ \E data \in R.menu_side_create, fault \in R.faults :
              /\ CatalogRowsCreated < MaxCatalogWrites
              /\ menu_sides_create_side(user_id, data, fault)
        \/ \E side_id \in R.sides, data \in R.side_update, fault \in R.faults :
              menu_sides_update_side(user_id, side_id, data, fault)
        \/ \E side_id \in R.sides, fault \in R.faults :
              menu_sides_delete_side(user_id, side_id, fault)
        \/ \E menu_item_id \in R.items, data \in R.side_create, fault \in R.faults :
              /\ CatalogRowsCreated < MaxCatalogWrites
              /\ sides_create_side(menu_item_id, user_id, data, fault)
        \/ \E menu_item_id \in R.items, side_id \in R.sides, data \in R.side_update,
                 fault \in R.faults \cup R.find :
              sides_update_side(menu_item_id, side_id, user_id, data, fault)
        \/ \E menu_item_id \in R.items, side_id \in R.sides, fault \in R.faults \cup R.find :
              sides_delete_side(menu_item_id, side_id, user_id, fault)

\* The catalog requests of SpecCatalog: the owner of restaurant 1 edits the
\* item and the side the order refers to, prices included.
OrderedCatalogRequests ==
    [users |-> {"u1"}, faults |-> CatalogFaults, find |-> {"find"},
     items |-> {1}, sides |-> {1},
     item_create |-> {d \in MenuItemCreate :
                        d.restaurant_id \in {1, 2} /\ d.category_id = 1 /\ d.is_available = 1},
     item_update |-> {d \in MenuItemUpdate : d.category_id \in {1, None} /\ d.is_available = None},
     menu_side_create |-> {d \in MenuSideCreate : d.menu_item_id = 1 /\ d.position = 0},
     side_create |-> {d \in SideCreate : d.position = 0},
     side_update |-> {d \in SideUpdate : d.position = None}]

NextCatalog ==
    \/ StartCreateOrder("c1", PlainOrderCreate, MaxDashboardOrders) /\ UNCHANGED <<bearer, request>>
    \/ create_order("c1", NextOrderId) /\ UNCHANGED <<bearer, request>>
    \/ UpdateOrderStatusOf({"confirmed", "canceled"}, {"none", "hydrate"}) /\ UNCHANGED <<bearer, request>>
    \/ CatalogWrite(OrderedCatalogRequests) /\ UNCHANGED <<bearer, request>>

SpecCatalog == Init /\ [][NextCatalog]_vars

\* SpecMenu: the two users edit and list the catalog and confirm the order,
\* their own and the other's, with ids the store holds and ids it does not.
CategoryWrite(R) ==
    \E user_id \in R.users :
        \/ \E data \in R.category_create, fault \in R.faults :
              CatalogRowsCreated < MaxCatalogWrites /\ create_category(user_id, data, fault)
        \/ \E category_id \in R.categories, data \in R.category_update, fault \in R.faults :
              update_category(user_id, category_id, data, fault)
        \/ \E category_id \in R.categories, fault \in R.faults :
              delete_category(user_id, category_id, fault)

CatalogRead(R) ==
    \E user_id \in R.users, fault \in R.faults :
        \/ \E restaurant_id \in R.restaurants : get_categories(user_id, restaurant_id, fault)
        \/ \E restaurant_id \in R.restaurants : get_items(user_id, restaurant_id, fault)
        \/ \E menu_item_id \in R.items : get_sides(menu_item_id, user_id, fault)
        \/ \E restaurant_id \in R.restaurants : get_restaurant_orders(user_id, restaurant_id, fault)

MenuRequests ==
    [users |-> Users, faults |-> {"none", "lookup"}, find |-> {"find"},
     restaurants |-> {1, 3}, categories |-> {1, 3}, items |-> {1, 4}, sides |-> {1, 4},
     category_create |-> {d \in MenuCategoryCreate : d.restaurant_id \in {1, 3} /\ d.is_active = 1},
     category_update |-> {d \in MenuCategoryUpdate : d.is_active \in {None, 0}},
     item_create |-> {d \in MenuItemCreate :
                        /\ d.restaurant_id \in {1, 3} /\ d.category_id \in {1, 2}
                        /\ d.base_price = MaxPrice /\ d.is_available = 1},
     item_update |-> {d \in MenuItemUpdate :
                        /\ d.category_id \in {None, 2} /\ d.base_price = None
                        /\ d.is_available = None},
     menu_side_create |-> {d \in MenuSideCreate :
                             d.menu_item_id \in {1, 4} /\ d.extra_price = 0 /\ d.position = 0},
     side_create |-> {d \in SideCreate : d.extra_price = 0 /\ d.position = 0},
     side_update |-> {d \in SideUpdate : d.extra_price \in {None, 0} /\ d.position = None}]

NextMenu ==
    \/ CategoryWrite(MenuRequests) /\ UNCHANGED <<bearer, request>>
    \/ CatalogWrite(MenuRequests) /\ UNCHANGED <<bearer, request>>
    \/ CatalogRead(MenuRequests) /\ UNCHANGED <<bearer, request>>
    \/ UpdateOrderStatusOf({"confirmed"}, MenuRequests.faults) /\ UNCHANGED <<bearer, request>>

\* An order of restaurant 1 is in the store: one line of item 1, no side.
InitMenu ==
    /\ InitCatalog
    /\ orders = (1 :> [restaurant_id |-> 1, total_amount |-> 1, status |-> "pending"])
    /\ order_items = (1 :> [order_id |-> 1, menu_item_id |-> 1, quantity |-> 1,
                            price |-> 1, total_price |-> 1])
    /\ order_item_sides = <<>>
    /\ calls = [c \in Callers |-> IdleCall]
    /\ resp = NoResp

SpecMenu == InitMenu /\ [][NextMenu]_vars

\* SpecUpload: files are uploaded until the bucket holds MaxUploads objects.
\* The names have no dot, one or two, extensions in capitals, allowed and
\* not; the lengths lie on both sides of the limit.
Stems == {<<>>, <<"a">>, <<"a", ".", "b">>}
Extensions ==
    ALLOWED_EXTENSIONS \cup
    {<<>>, <<"J", "P", "G">>, <<"P", "n", "g">>, <<"e", "x", "e">>, <<"p", "n", "g", "x">>,
     <<"s", "v", "g">>}
Filenames == {stem \o dot \o ext : stem \in Stems, dot \in {<<>>, <<".">>}, ext \in Extensions}
Sizes == {1, MAX_FILE_SIZE, MAX_FILE_SIZE + 1, 6 * 1024 * 1024}
UploadFile == [filename : Filenames, size : Sizes]

UploadFiles ==
    /\ Cardinality(storage) < MaxUploads
    /\ \E file \in UploadFile, fault \in {"none", "upload", "url"} :
          \/ \E folder \in {"avatars", "logos"} : upload_file_to_storage(file, folder, "u1", fault)
          \/ upload_menu_image_with_signed_url(file, "u1", fault)
          \/ upload_menu_image_with_signed_url(file, "u1", "unsigned")

NextUpload == UploadFiles /\ UNCHANGED <<bearer, request>>

SpecUpload == Init /\ [][NextUpload]_vars

\* SpecPublic: the public pages are read over stores where restaurant 1 is
\* active or not, onboarded or not, of either owner; its categories 1 and 3
\* are active or not; its items 1 and 2 are available or not, item 1 in either
\* category; item 3 of restaurant 2 is in its own category or in category 1;
\* and the sides of item 1 have either position.
InitPublic ==
    /\ \E owner_id \in Users, is_active \in Bool, is_onboarded \in Bool, created_at \in Bool :
          restaurants = (1 :> RestaurantRow(owner_id, "r1", is_active, is_onboarded, created_at)) @@
                        (2 :> RestaurantRow("u2", "r2", 1, 1, 0))
    /\ \E a1 \in Bool, a3 \in Bool :
          menu_categories = (1 :> [restaurant_id |-> 1, is_active |-> a1]) @@
                            (2 :> [restaurant_id |-> 2, is_active |-> 1]) @@
                            (3 :> [restaurant_id |-> 1, is_active |-> a3])
    /\ \E c1 \in {1, 3}, v1 \in Bool, v2 \in Bool, c3 \in {1, 2} :
          menu_items =
            (1 :> [restaurant_id |-> 1, category_id |-> c1, base_price |-> 1, is_available |-> v1]) @@
            (2 :> [restaurant_id |-> 1, category_id |-> 1, base_price |-> 0, is_available |-> v2]) @@
            (3 :> [restaurant_id |-> 2, category_id |-> c3, base_price |-> 1, is_available |-> 1])
    /\ \E p1 \in Positions, p2 \in Positions :
          menu_item_sides = (1 :> [menu_item_id |-> 1, extra_price |-> 1, position |-> p1]) @@
                            (2 :> [menu_item_id |-> 1, extra_price |-> 0, position |-> p2]) @@
                            (3 :> [menu_item_id |-> 2, extra_price |-> 1, position |-> 0])
    /\ storage = {}
    /\ bearer = "-"
    /\ request = NoRequest
    /\ fresh = [menu_categories |-> 3, menu_items |-> 3, menu_item_sides |-> 3, objects |-> 0]
    /\ InitOrders
    /\ calls = [c \in Callers |-> IdleCall]
    /\ resp = NoResp

NextPublic ==
    \/ \E slug \in Slugs, fault \in {"none", "restaurant"} :
          get_public_restaurant_by_slug(slug, fault) /\ UNCHANGED <<bearer, request>>
    \/ \E slug \in Slugs, fault \in {"none", "restaurant"} :
          restaurants_get_public_restaurant_by_slug(slug, fault) /\ UNCHANGED <<bearer, request>>
    \/ \E slug \in Slugs, fault \in {"none", "restaurant", "categories", "items"} :
          get_public_menu_by_slug(slug, fault) /\ UNCHANGED <<bearer, request>>

SpecPublic == InitPublic /\ [][NextPublic]_vars

\* ---------------------------------------------------------------------
\* Authentication: the dependency get_current_user runs before the handler
\* of every route that declares it, and the handler runs only if it returns.
\* ---------------------------------------------------------------------
HTTP_401_UNAUTHORIZED == 401

\* Tokens the identity verifier is asked about: two sessions, a token it
\* rejects, a token for which it answers without a user, and a token it
\* cannot verify because the call itself fails.
Tokens == {"t1", "t2", "rejected", "nouser", "unverifiable"}

\* supabase.auth.get_user(token): raises, or answers with a user or None.
get_user(token) ==
    CASE token = "t1" -> [raised |-> FALSE, user |-> "u1"]
      [] token = "t2" -> [raised |-> FALSE, user |-> "u2"]
      [] token = "nouser" -> [raised |-> FALSE, user |-> "-"]
      [] OTHER -> [raised |-> TRUE, user |-> "-"]

Unauthorized(detail) ==
    [raised |-> TRUE, id |-> "-", code |-> HTTP_401_UNAUTHORIZED, detail |-> detail,
     header |-> "Bearer"]

get_current_user_without_user_check(token) ==
    LET user_response == get_user(token) IN
    IF user_response.raised
    THEN Unauthorized("Authentication failed")
    ELSE [raised |-> FALSE, id |-> user_response.user, code |-> 0, detail |-> "-", header |-> "-"]

\* The HTTPException raised when there is no user is raised inside the try
\* and caught by "except Exception", which raises the 401 of the handler.
get_current_user(token) ==
    LET user_response == get_user(token)
        inner == IF user_response.raised \/ user_response.user = "-"
                 THEN Unauthorized("Invalid authentication credentials")
                 ELSE [raised |-> FALSE, id |-> user_response.user, code |-> 0,
                       detail |-> "-", header |-> "-"]
    IN  IF inner.raised THEN Unauthorized("Authentication failed") ELSE inner

AuthRequests ==
    [MenuRequests EXCEPT !.faults = {"none"}, !.restaurants = {1}, !.categories = {1},
                         !.items = {1}, !.sides = {1},
                         !.category_create = {d \in @ : d.restaurant_id = 1},
                         !.category_update = {d \in @ : d.is_active = 0},
                         !.item_create = {d \in @ : d.restaurant_id = 1 /\ d.category_id = 1},
                         !.item_update = {d \in @ : d.category_id = None},
                         !.menu_side_create = {d \in @ : d.menu_item_id = 1},
                         !.side_update = {d \in @ : d.extra_price = 0}]

AuthRequestsOf(user_id) == [AuthRequests EXCEPT !.users = {user_id}]

Routers == {"menu_categories", "menu_items", "listings", "orders", "uploads"}

\* The handlers of a router, called with the user id of the dependency.
Handler(router, user_id) ==
    CASE router = "menu_categories" -> CategoryWrite(AuthRequestsOf(user_id))
      [] router = "menu_items" -> CatalogWrite(AuthRequestsOf(user_id))
      [] router = "listings" -> CatalogRead(AuthRequestsOf(user_id))
      [] router = "orders" -> update_order_status(user_id, 1, "confirmed", "none")
      [] router = "uploads" ->
            /\ Cardinality(storage) < MaxUploads
            /\ \E file \in {f \in UploadFile : f.size = 1} :
                  upload_file_to_storage(file, "avatars", user_id, "none")

AuthResp(router, failure) ==
    [NoResp EXCEPT !.op = "get_current_user", !.code = failure.code, !.detail = failure.detail,
                   !.header = failure.header, !.target = <<router>>]

\* A route with Depends(get_current_user): the handler is called with the
\* user id the dependency returns, and not at all when it raises.
Route(token, router) ==
    LET current == get_current_user(token) IN
    /\ bearer' = token
    /\ UNCHANGED request
    /\ IF current.raised
       THEN /\ resp' = AuthResp(router, current)
            /\ UNCHANGED <<catalogVars, orderVars, calls>>
       ELSE Handler(router, current.id)

NextAuth ==
    \E token \in Tokens :
        \/ Route(token, "menu_categories")
        \/ Route(token, "menu_items")
        \/ Route(token, "listings")
        \/ Route(token, "orders")
        \/ Route(token, "uploads")

SpecAuth == InitMenu /\ [][NextAuth]_vars

\* ---------------------------------------------------------------------
\* The application: the routers main.py includes, in its order, and the
\* dispatch of a request to the first route whose method and path match.
\* A path is the sequence of its segments; "{}" is a path parameter.
\* ---------------------------------------------------------------------
RouteOf(method, path, endpoint) == [method |-> method, path |-> path, endpoint |-> endpoint]

\* The routes each router module declares, in the order of the decorators.
APIRouter ==
    [health |-> <<RouteOf("GET", <<"health">>, "health.health_check")>>,
     public |-> <<RouteOf("GET", <<"public", "restaurants", "{}">>, "public.get_public_restaurant"),
                  RouteOf("GET", <<"public", "restaurants", "{}", "menu">>, "public.get_public_menu")>>,
     profiles |-> <<RouteOf("GET", <<"profiles", "me">>, "profiles.get_my_profile"),
                    RouteOf("PATCH", <<"profiles", "me">>, "profiles.update_my_profile")>>,
     uploads |-> <<RouteOf("POST", <<"uploads", "avatar">>, "uploads.upload_avatar"),
                   RouteOf("POST", <<"uploads", "logo">>, "uploads.upload_logo"),
                   RouteOf("POST", <<"uploads", "menu_item_image">>, "uploads.upload_menu_item_image")>>,
     restaurants |-> <<RouteOf("POST", <<"restaurants">>, "restaurants.create_restaurant"),
                       RouteOf("GET", <<"restaurants", "me">>, "restaurants.get_my_restaurants"),
                       RouteOf("GET", <<"restaurants", "{}">>, "restaurants.get_public_restaurant")>>,
     onboarding |-> <<RouteOf("GET", <<"onboarding", "status">>, "onboarding.get_onboarding_status")>>,
     menu_categories |->
         <<RouteOf("POST", <<"menu", "categories">>, "menu_categories.create_category"),
           RouteOf("GET", <<"menu", "categories">>, "menu_categories.get_categories"),
           RouteOf("PATCH", <<"menu", "categories", "{}">>, "menu_categories.update_category"),
           RouteOf("DELETE", <<"menu", "categories", "{}">>, "menu_categories.delete_category")>>,
     menu_items |->
         <<RouteOf("POST", <<"menu", "items">>, "menu_items.create_item"),
           RouteOf("GET", <<"menu", "items">>, "menu_items.get_items"),
           RouteOf("PATCH", <<"menu", "items", "{}">>, "menu_items.update_item"),
           RouteOf("DELETE", <<"menu", "items", "{}">>, "menu_items.delete_item")>>,
     menu_sides |->
         <<RouteOf("POST", <<"menu", "items", "{}", "sides">>, "menu_sides.create_side"),
           RouteOf("PATCH", <<"menu", "sides", "{}">>, "menu_sides.update_side"),
           RouteOf("DELETE", <<"menu", "sides", "{}">>, "menu_sides.delete_side")>>,
     sides |->
         <<RouteOf("GET", <<"menu", "items", "{}", "sides">>, "sides.get_sides"),
           RouteOf("POST", <<"menu", "items", "{}", "sides">>, "sides.create_side"),
           RouteOf("PATCH", <<"menu", "items", "{}", "sides", "{}">>, "sides.update_side"),
           RouteOf("DELETE", <<"menu", "items", "{}", "sides", "{}">>, "sides.delete_side")>>,
     orders |->
         <<RouteOf("POST", <<"orders">>, "orders.create_order"),
           RouteOf("GET", <<"public", "orders", "{}">>, "orders.get_order_by_code"),
           RouteOf("GET", <<"restaurants", "{}", "orders">>, "orders.get_restaurant_orders"),
           RouteOf("PATCH", <<"orders", "{}", "status">>, "orders.update_order_status")>>]

\* app.include_router(...), in the order of main.py.
include_router ==
    <<"health", "public", "profiles", "uploads", "restaurants", "onboarding", "menu_categories",
      "menu_items", "menu_sides", "sides">>

RECURSIVE RoutesOf(_)
RoutesOf(routers) ==
    IF routers = <<>> THEN <<>> ELSE APIRouter[Head(routers)] \o RoutesOf(Tail(routers))

\* The routes of the application: those of the included routers, then the
\* root route declared on the application itself.
app == RoutesOf(include_router) \o <<RouteOf("GET", <<>>, "root")>>

PathMatches(pattern, path) ==
    /\ Len(pattern) = Len(path)
    /\ \A i \in 1..Len(pattern) : pattern[i] = "{}" \/ pattern[i] = path[i]

\* The first route matching method and path; without one, 405 when some
\* route matches the path alone, else 404.
Dispatch(method, path) ==
    LET full == {i \in 1..Len(app) : app[i].method = method /\ PathMatches(app[i].path, path)}
        partial == {i \in 1..Len(app) : PathMatches(app[i].path, path)}
    IN  IF full # {} THEN app[Min(full)].endpoint
        ELSE IF partial # {} THEN "405" ELSE "404"

\* A path parameter declared as a UUID.
Param(segment) ==
    CASE segment = "1" -> 1 [] segment = "2" -> 2 [] segment = "3" -> 3 [] OTHER -> 4

Protected ==
    {"profiles.get_my_profile", "profiles.update_my_profile", "uploads.upload_avatar",
     "uploads.upload_logo", "uploads.upload_menu_item_image", "restaurants.create_restaurant",
     "restaurants.get_my_restaurants", "onboarding.get_onboarding_status",
     "menu_categories.create_category", "menu_categories.get_categories",
     "menu_categories.update_category", "menu_categories.delete_category",
     "menu_items.create_item", "menu_items.get_items", "menu_items.update_item",
     "menu_items.delete_item", "menu_sides.create_side", "menu_sides.update_side",
     "menu_sides.delete_side", "sides.get_sides", "sides.create_side", "sides.update_side",
     "sides.delete_side", "orders.get_restaurant_orders", "orders.update_order_status"}

\* Bodies and query parameters of the requests served.
AppRequests ==
    [AuthRequests EXCEPT !.menu_side_create = {d \in MenuSideCreate :
                                                 d.extra_price = 0 /\ d.position = 0}]

AppFile == [filename |-> <<"a", ".", "p", "n", "g">>, size |-> 1]

\* Handlers whose service is not modelled: the request reaches them.
Reached(endpoint, user_id) ==
    /\ resp' = [NoResp EXCEPT !.op = endpoint, !.user = user_id]
    /\ UNCHANGED <<catalogVars, orderVars, calls>>

\* The route handlers: each calls its service with the path parameters, the
\* body and, for a protected route, the user id of get_current_user.
Endpoint(endpoint, path, user_id) ==
    CASE endpoint = "public.get_public_restaurant" -> get_public_restaurant_by_slug(path[3], "none")
      [] endpoint = "public.get_public_menu" -> get_public_menu_by_slug(path[3], "none")
      [] endpoint = "restaurants.get_public_restaurant" ->
            restaurants_get_public_restaurant_by_slug(path[2], "none")
      [] endpoint = "uploads.upload_avatar" ->
            /\ Cardinality(storage) < MaxUploads
            /\ upload_file_to_storage(AppFile, "avatars", user_id, "none")
      [] endpoint = "uploads.upload_logo" ->
            /\ Cardinality(storage) < MaxUploads
            /\ upload_file_to_storage(AppFile, "logos", user_id, "none")
      [] endpoint = "uploads.upload_menu_item_image" ->
            /\ Cardinality(storage) < MaxUploads
            /\ upload_menu_image_with_signed_url(AppFile, user_id, "none")
      [] endpoint = "menu_categories.create_category" ->
            \E data \in AppRequests.category_create :
                CatalogRowsCreated < MaxCatalogWrites /\ create_category(user_id, data, "none")
      [] endpoint = "menu_categories.get_categories" ->
            \E restaurant_id \in AppRequests.restaurants :
                get_categories(user_id, restaurant_id, "none")
      [] endpoint = "menu_categories.update_category" ->
            \E data \in AppRequests.category_update :
                update_category(user_id, Param(path[3]), data, "none")
      [] endpoint = "menu_categories.delete_category" ->
            delete_category(user_id, Param(path[3]), "none")
      [] endpoint = "menu_items.create_item" ->
            \E data \in AppRequests.item_create :
                CatalogRowsCreated < MaxCatalogWrites /\ create_item(user_id, data, "none")
      [] endpoint = "menu_items.get_items" ->
            \E restaurant_id \in AppRequests.restaurants : get_items(user_id, restaurant_id, "none")
      [] endpoint = "menu_items.update_item" ->
            \E data \in AppRequests.item_update : update_item(user_id, Param(path[3]), data, "none")
      [] endpoint = "menu_items.delete_item" -> delete_item(user_id, Param(path[3]), "none")
      [] endpoint = "menu_sides.create_side" ->
            \E data \in AppRequests.menu_side_create :
                /\ CatalogRowsCreated < MaxCatalogWrites
                /\ menu_sides_routes_create_side(Param(path[3]), data, user_id, "none")
      [] endpoint = "menu_sides.update_side" ->
            \E data \in AppRequests.side_update :
                menu_sides_update_side(user_id, Param(path[3]), data, "none")
      [] endpoint = "menu_sides.delete_side" ->
            menu_sides_delete_side(user_id, Param(path[3]), "none")
      [] endpoint = "sides.get_sides" -> get_sides(Param(path[3]), user_id, "none")
      [] endpoint = "sides.create_side" ->
            \E data \in AppRequests.side_create :
                /\ CatalogRowsCreated < MaxCatalogWrites
                /\ sides_create_side(Param(path[3]), user_id, data, "none")
      [] endpoint = "sides.update_side" ->
            \E data \in AppRequests.side_update :
                sides_update_side(Param(path[3]), Param(path[5]), user_id, data, "none")
      [] endpoint = "sides.delete_side" ->
            sides_delete_side(Param(path[3]), Param(path[5]), user_id, "none")
      [] endpoint = "orders.create_order" -> StartCreateOrder("c1", PlainOrderCreate, MaxOrders)
      [] endpoint = "orders.get_order_by_code" -> GetOrderByCode
      [] endpoint = "orders.get_restaurant_orders" ->
            get_restaurant_orders(user_id, Param(path[2]), "none")
      [] endpoint = "orders.update_order_status" ->
            update_order_status(user_id, Param(path[2]), "confirmed", "none")
      [] OTHER -> Reached(endpoint, user_id)

\* The answer of the router itself when no route matches.
NoRouteResp(req, endpoint) ==
    [NoResp EXCEPT !.op = "app", !.code = IF endpoint = "404" THEN HTTP_404_NOT_FOUND ELSE 405,
                   !.detail = IF endpoint = "404" THEN "Not Found" ELSE "Method Not Allowed",
                   !.target = <<req.method>> \o req.path]

\* One request through the application.
Serve(req) ==
    LET endpoint == Dispatch(req.method, req.path)
        current == get_current_user(req.token)
    IN  IF endpoint \in {"404", "405"}
          THEN /\ resp' = NoRouteResp(req, endpoint)
               /\ UNCHANGED <<catalogVars, orderVars, calls, bearer, request>>
        ELSE IF endpoint \notin Protected
          THEN Endpoint(endpoint, req.path, "-") /\ bearer' = "-" /\ UNCHANGED request
        ELSE /\ bearer' = req.token
             /\ UNCHANGED request
             /\ IF current.raised
                  THEN /\ resp' = AuthResp(endpoint, current)
                       /\ UNCHANGED <<catalogVars, orderVars, calls>>
                  ELSE Endpoint(endpoint, req.path, current.id)

Methods == {"GET", "POST", "PATCH", "DELETE"}

Paths ==
    {<<>>, <<"health">>, <<"public", "restaurants", "r1">>, <<"public", "restaurants", "r1", "menu">>,
     <<"profiles", "me">>, <<"uploads", "menu_item_image">>, <<"restaurants">>,
     <<"restaurants", "me">>,
     <<"restaurants", "r1">>, <<"onboarding", "status">>, <<"menu", "categories">>,
     <<"menu", "categories", "1">>, <<"menu", "items">>, <<"menu", "items", "1">>,
     <<"menu", "items", "1", "sides">>, <<"menu", "sides", "1">>,
     <<"menu", "items", "1", "sides", "1">>,
     <<"orders">>, <<"public", "orders", "1">>, <<"restaurants", "1", "orders">>,
     <<"orders", "1", "status">>}

\* Every method on every path with a session, and the order paths and one
\* protected path with a token that resolves to no user.
Request ==
    [method : Methods, path : Paths, token : {"t1"}] \cup
    [method : Methods, token : {"nouser"},
     path : {<<"menu", "categories">>, <<"restaurants", "1", "orders">>, <<"orders", "1", "status">>}]

NextApp == \E req \in Request : Serve(req)

SpecApp == InitMenu /\ [][NextApp]_vars

\* SpecSides: the routes that create, update and delete sides under a menu
\* item named in the path, called by both users on the items 1 and 2 of
\* restaurant 1 and the item 3 of restaurant 2; the body of the menu_sides
\* route carries a menu_item_id of its own.
SideRequests ==
    [users |-> Users, faults |-> {"none", "lookup", "find"}, items |-> {1, 2, 3},
     sides |-> {1, 3, 4},
     menu_side_create |-> {d \in MenuSideCreate :
                             d.menu_item_id \in {1, 3} /\ d.extra_price = 0 /\ d.position = 0},
     side_create |-> {d \in SideCreate : d.extra_price = 0 /\ d.position = 0},
     side_update |-> {d \in SideUpdate : d.extra_price \in {None, 0} /\ d.position = None}]

Requested(item_id, side_id, body_item) ==
    request' = [item_id |-> item_id, side_id |-> side_id, body_item |-> body_item]

SideRoutes(R) ==
    \E user_id \in R.users, item_id \in R.items, fault \in R.faults :
        \/ \E data \in R.menu_side_create :
              /\ CatalogRowsCreated < MaxCatalogWrites /\ fault # "find"
              /\ Requested(item_id, 0, data.menu_item_id)
              /\ menu_sides_routes_create_side(item_id, data, user_id, fault)
        \/ \E data \in R.side_create :
              /\ CatalogRowsCreated < MaxCatalogWrites /\ fault # "find"
              /\ Requested(item_id, 0, 0)
              /\ sides_create_side(item_id, user_id, data, fault)
        \/ \E side_id \in R.sides, data \in R.side_update :
              /\ Requested(item_id, side_id, 0)
              /\ sides_update_side(item_id, side_id, user_id, data, fault)
        \/ \E side_id \in R.sides :
              /\ Requested(item_id, side_id, 0)
              /\ sides_delete_side(item_id, side_id, user_id, fault)

NextSides == SideRoutes(SideRequests) /\ UNCHANGED bearer

SpecSides == Init /\ [][NextSides]_vars

----------------------------------------------------------------------------
\* What the claims speak of.
RECURSIVE SumFn(_, _)
SumFn(f, S) ==
    IF S = {} THEN 0
    ELSE LET x == CHOOSE y \in S : TRUE IN f[x] + SumFn(f, S \ {x})

\* The amount the statement of the total assigns to a line and to a submission.
ClaimedLineTotal(line) ==
    (line.price + SumSeq([j \in 1..Len(line.sides) |-> line.sides[j].extra_price]))
        * line.quantity

ClaimedTotal(data) ==
    SumSeq([i \in 1..Len(data.items) |-> ClaimedLineTotal(data.items[i])])

\* The amount the stored rows of an order add up to.
StoredSidesOf(oi) == {s \in DOMAIN order_item_sides : order_item_sides[s].order_item_id = oi}
StoredItemsOf(o) == {k \in DOMAIN order_items : order_items[k].order_id = o}

StoredSidesSum(oi) ==
    SumFn([s \in DOMAIN order_item_sides |-> order_item_sides[s].extra_price], StoredSidesOf(oi))

StoredSum(o) ==
    SumFn([k \in DOMAIN order_items |->
              (order_items[k].price + StoredSidesSum(k)) * order_items[k].quantity],
          StoredItemsOf(o))

\* The last response is the order a create_order call returned.
Created == resp.op = "create_order" /\ resp.code = HTTP_201_CREATED

PastStep2 == {"step3", "step4", "step5", "step5_side", "step6"}
PastStep3 == {"step4", "step5", "step5_side", "step6"}

\* Every line names a menu item that exists and is of the submitted restaurant.
ItemRefsValid(data) ==
    \A i \in 1..Len(data.items) :
        /\ data.items[i].menu_item_id \in DOMAIN menu_items
        /\ menu_items[data.items[i].menu_item_id].restaurant_id = data.restaurant_id

\* Some line names a side that does not exist or is of another menu item.
HasBadSide(data) ==
    \E i \in 1..Len(data.items) : \E j \in 1..Len(data.items[i].sides) :
        LET sid == data.items[i].sides[j].menu_item_side_id
        IN  \/ sid \notin DOMAIN menu_item_sides
            \/ menu_item_sides[sid].menu_item_id # data.items[i].menu_item_id

----------------------------------------------------------------------------
\* C1: an accepted submission is returned and stored with total_amount equal
\* to the sum over its lines of (price + sum of extra prices) * quantity, and
\* each stored order item has the total_price of its own line.
C1_TotalIsSumOfLines ==
    Created =>
        /\ resp.total_amount = ClaimedTotal(resp.data)
        /\ resp.order_id \in DOMAIN orders
        /\ orders[resp.order_id].total_amount = ClaimedTotal(resp.data)
        /\ Len(resp.items) = Len(resp.data.items)
        /\ \A i \in 1..Len(resp.items) :
              /\ resp.items[i] \in DOMAIN order_items
              /\ order_items[resp.items[i]].order_id = resp.order_id
              /\ order_items[resp.items[i]].total_price = ClaimedLineTotal(resp.data.items[i])

\* An order of two lines, two sides on one of them and a quantity above 1 is returned.
C1_Witness ==
    /\ Created
    /\ Len(resp.data.items) = 2
    /\ \E i \in 1..2 : Len(resp.data.items[i].sides) = 2 /\ resp.data.items[i].quantity = 2
    /\ resp.total_amount > 2

\* C5 (as stated): every stored unit price is the base price of the menu item
\* in the catalog and every stored extra price that of the catalog side; the
\* declared prices of the submission do not decide them.
C5_PricesFromCatalog ==
    /\ \A k \in DOMAIN order_items :
          order_items[k].menu_item_id \in DOMAIN menu_items =>
              order_items[k].price = menu_items[order_items[k].menu_item_id].base_price
    /\ \A s \in DOMAIN order_item_sides :
          order_item_sides[s].menu_item_side_id \in DOMAIN menu_item_sides =>
              order_item_sides[s].extra_price =
                  menu_item_sides[order_item_sides[s].menu_item_side_id].extra_price

\* C6 (as stated): the item references are accepted exactly when every
\* distinct menu_item_id of the lines exists and is of the submitted
\* restaurant; two lines naming the same item are not rejected.
C6_AcceptsIffDistinctIdsValid ==
    /\ \A c \in Callers : calls[c].pc \in PastStep2 => ItemRefsValid(calls[c].data)
    /\ (resp.op = "create_order"
          /\ resp.detail \in {"One or more menu items not found",
                              "Menu item does not belong to this restaurant"})
       => ~ItemRefsValid(resp.data)

C8_TotalAlwaysStoredSum ==
    \A o \in DOMAIN orders : orders[o].total_amount = StoredSum(o)

\* C8 (amended): the stored total_amount is that sum once create_order has
\* returned the order; until then, and after a failure part-way, it is 0.
C8_TotalStoredSumOnceReturned ==
    \A o \in DOMAIN orders :
        IF Created /\ resp.order_id = o
          THEN orders[o].total_amount = StoredSum(o)
          ELSE orders[o].total_amount = 0

\* A returned order whose stored rows add up to more than 0, over two items.
C8_Witness ==
    /\ Created
    /\ Cardinality(StoredItemsOf(resp.order_id)) = 2
    /\ StoredSidesOf(resp.items[1]) # {}
    /\ StoredSum(resp.order_id) > 2
    /\ orders[resp.order_id].total_amount = StoredSum(resp.order_id)

\* The last response answers an update_order_status request.
StatusAnswered == resp.op = "update_order_status"

\* The order of the last update_order_status request was stored when it was
\* answered, and the caller is the owner of its restaurant.
StatusOrderKnown == StatusAnswered /\ resp.prev # "-"
StatusByOwner == StatusOrderKnown /\ resp.user = OrderOwner(resp.order_id)

\* The lifecycle: one step forward, or canceled from a non-terminal status.
Lifecycle == <<"pending", "confirmed", "preparing", "ready", "delivering", "completed">>

LifecycleStep(a, b) ==
    \/ \E i \in 1..(Len(Lifecycle) - 1) : a = Lifecycle[i] /\ b = Lifecycle[i + 1]
    \/ b = "canceled" /\ a \notin {"completed", "canceled"}

\* C2 (as stated): an order is created pending and its stored status only
\* changes one step forward along the lifecycle or to canceled from a
\* non-terminal status; a completed or canceled order never changes status.
C2_OnlyLifecycleSteps ==
    [][/\ \A o \in DOMAIN orders' \ DOMAIN orders : orders'[o].status = "pending"
       /\ \A o \in DOMAIN orders :
             orders'[o].status # orders[o].status =>
                 LifecycleStep(orders[o].status, orders'[o].status)]_vars

\* C2 (amended): an order is created pending, and its stored status only
\* changes to the status an update_order_status request names, which is one
\* of the seven valid values; the owner's request sets it whatever the
\* current status is, completed and canceled included.
C2_StatusSetAsRequested ==
    [][/\ \A o \in DOMAIN orders' \ DOMAIN orders : orders'[o].status = "pending"
       /\ \A o \in DOMAIN orders :
             orders'[o].status # orders[o].status =>
                 /\ resp'.op = "update_order_status"
                 /\ resp'.order_id = o
                 /\ resp'.prev = orders[o].status
                 /\ resp'.status = orders'[o].status
                 /\ resp'.status \in VALID_STATUSES
       /\ (StatusByOwner' /\ resp'.status \in VALID_STATUSES
              /\ resp'.fault \in {"none", "hydrate"})
          => orders'[resp'.order_id].status = resp'.status]_vars

\* The owner has moved a completed order back to pending.
C2_Witness ==
    /\ StatusByOwner
    /\ resp.code = HTTP_200_OK
    /\ resp.prev = "completed"
    /\ resp.status = "pending"
    /\ orders[resp.order_id].status = "pending"

C4_OnlyOwnerSetsStatus ==
    [][/\ (StatusByOwner' /\ resp'.status \in VALID_STATUSES /\ resp'.fault = "none") =>
             /\ resp'.code = HTTP_200_OK
             /\ orders'[resp'.order_id].status = resp'.status
       /\ (StatusOrderKnown' /\ ~StatusByOwner' /\ resp'.status \in VALID_STATUSES
              /\ resp'.fault = "none") =>
             /\ resp'.code = HTTP_403_FORBIDDEN
             /\ orders'[resp'.order_id].status = resp'.prev
       /\ \A o \in DOMAIN orders :
             orders'[o].status # orders[o].status =>
                 /\ resp'.op = "update_order_status"
                 /\ resp'.order_id = o
                 /\ resp'.user = OrderOwner(o)
       /\ (resp'.op = "update_order_status" /\ resp'.code = HTTP_403_FORBIDDEN
              /\ resp' # resp) => orders' = orders]_vars

\* The owner of the other restaurant asked to confirm a pending order.
C4_Witness ==
    /\ StatusOrderKnown
    /\ resp.user # OrderOwner(resp.order_id)
    /\ resp.status = "confirmed"
    /\ resp.code = HTTP_403_FORBIDDEN
    /\ orders[resp.order_id].status = "pending"
    /\ orders[resp.order_id].restaurant_id = 2

\* No create_order call is still writing the order.
Settled(o) == \A c \in Callers : calls[c].order_id # o

\* C9: once an order has been created, no catalog operation (update_item,
\* update_side of both modules, create, delete) and no update_order_status
\* call changes its total_amount, any stored order item or any stored order
\* side; update_order_status changes no field of an order but status.
C9_OrderAmountsFrozen ==
    [][/\ \A o \in DOMAIN orders :
             Settled(o) =>
                 /\ o \in DOMAIN orders'
                 /\ orders'[o].total_amount = orders[o].total_amount
                 /\ orders'[o].restaurant_id = orders[o].restaurant_id
       /\ \A k \in DOMAIN order_items :
             k \in DOMAIN order_items' /\ order_items'[k] = order_items[k]
       /\ \A s \in DOMAIN order_item_sides :
             s \in DOMAIN order_item_sides' /\ order_item_sides'[s] = order_item_sides[s]
       /\ (resp'.op # "create_order" /\ resp' # resp) =>
             /\ DOMAIN orders' = DOMAIN orders
             /\ \A o \in DOMAIN orders :
                   [orders'[o] EXCEPT !.status = orders[o].status] = orders[o]]_vars

\* The order was placed at the catalog prices; its item's price was then
\* changed, its side deleted and its status set, and its amounts stand.
C9_Witness ==
    /\ 1 \in DOMAIN orders /\ Settled(1)
    /\ orders[1].status = "canceled"
    /\ orders[1].total_amount = (MaxPrice + MaxPrice) * MaxQty
    /\ 1 \in DOMAIN order_items /\ order_items[1].price = MaxPrice
    /\ 1 \in DOMAIN menu_items /\ menu_items[1].base_price = 0
    /\ 1 \in DOMAIN order_item_sides /\ order_item_sides[1].menu_item_side_id = 1
    /\ 1 \notin DOMAIN menu_item_sides

\* The stored orders, at the time of the last get_order_by_code response,
\* whose identifier has the code of the request as its first 8 characters.
OrdersOfCode ==
    {o \in resp.seen : \A i \in 1..CodeLen : i <= Len(resp.arg) /\ OrderUuid[o][i] = resp.arg[i]}

CodeAnswered == resp.op = "get_order_by_code" /\ Len(resp.arg) = CodeLen

\* C10: get_order_by_code(code), for an 8-character code, returns the data
\* of an order whose identifier starts with code whenever there is one, and
\* never the data of an order whose identifier does not start with code.
C10_ReturnsOrderOfCode ==
    /\ (CodeAnswered /\ resp.fault = "none" /\ OrdersOfCode # {}) => resp.code = HTTP_200_OK
    /\ (CodeAnswered /\ resp.code = HTTP_200_OK) =>
          /\ resp.order_id \in OrdersOfCode
          /\ resp.status = orders[resp.order_id].status

\* Two stored orders share the code of the request, a third lies next to
\* the range, and the second of the two is returned.
C10_Witness ==
    /\ CodeAnswered
    /\ resp.code = HTTP_200_OK
    /\ OrdersOfCode = {1, 2}
    /\ resp.order_id = 2

\* The rows the range query of the last get_order_by_code request returned:
\* the stored orders between the two bounds built from its code.
RangeAnswered ==
    {o \in resp.seen : /\ UuidLeq(ToUuid(start_uuid(resp.arg)), OrderUuid[o])
                       /\ UuidLeq(OrderUuid[o], ToUuid(end_uuid(resp.arg)))}

\* The range query of the last request ran and did not raise.
RangeRan ==
    /\ CodeAnswered
    /\ resp.fault # "range"
    /\ IsUuid(start_uuid(resp.arg)) /\ IsUuid(end_uuid(resp.arg))

\* C11: for an 8-character code, when the range query returns no row, and
\* when the rows it returns have identifiers that do not start with the code,
\* get_order_by_code answers 404, not 500, and returns no order data.
C11_NotFoundNotServerError ==
    (RangeRan /\ (RangeAnswered = {} \/ RangeAnswered \cap OrdersOfCode = {})) =>
        /\ resp.code = HTTP_404_NOT_FOUND
        /\ resp.order_id = 0
        /\ resp.status = "-"
        /\ resp.total_amount = 0
        /\ resp.items = <<>>

\* An order is stored, its code is asked for in upper case, the range query
\* returns the order and the answer is 404.
C11_Witness ==
    /\ RangeRan
    /\ RangeAnswered # {}
    /\ OrdersOfCode = {}
    /\ resp.code = HTTP_404_NOT_FOUND

----------------------------------------------------------------------------
\* The update services of the catalog, and whether the request in resp got
\* past their lookups: the entity is stored, the caller owns its restaurant
\* and no lookup raised.  An update changes neither, so the state after the
\* request tells.
UpdateOps == {"update_category", "update_item", "menu_sides.update_side", "sides.update_side"}

UpdateAnswered == resp.op \in UpdateOps

UpdateAllowed ==
    /\ resp.fault \notin {"lookup", "find"}
    /\ CASE resp.op = "update_category" ->
               CategoryLookup(resp.target[1]) /\ CategoryOwner(resp.target[1]) = resp.user
         [] resp.op = "update_item" ->
               ItemLookup(resp.target[1]) /\ ItemOwner(resp.target[1]) = resp.user
         [] resp.op = "menu_sides.update_side" ->
               SideLookup(resp.target[1]) /\ SideOwner(resp.target[1]) = resp.user
         [] resp.op = "sides.update_side" ->
               /\ ItemLookup(resp.target[1]) /\ ItemOwner(resp.target[1]) = resp.user
               /\ SideOfItem(resp.target[2], resp.target[1])
         [] OTHER -> FALSE

\* C12, as stated: an update of a catalog entity with a patch whose fields are
\* all null is answered 400.
C12_EmptyPatchIsBadRequest ==
    (UpdateAnswered /\ resp.patch = {}) => resp.code = HTTP_400_BAD_REQUEST

\* C12, amended: an update with a patch whose fields are all null writes
\* nothing to the catalog, and is answered 400 when the entity is stored, the
\* caller owns its restaurant and the lookups of the service did not raise.
C12_EmptyPatchWritesNothing ==
    [][(resp'.op \in UpdateOps /\ resp'.patch = {}) =>
          /\ UNCHANGED catalogVars
          /\ UpdateAllowed' => resp'.code = HTTP_400_BAD_REQUEST]_vars

C12_Witness ==
    /\ resp.op = "sides.update_side"
    /\ resp.patch = {}
    /\ UpdateAllowed
    /\ resp.code = HTTP_400_BAD_REQUEST

----------------------------------------------------------------------------
\* The owner-gated services of the catalog and the entity a request r names:
\* a restaurant, a category, a menu item, a side, or a side under a menu item.
OnRestaurant == {"create_category", "get_categories", "create_item", "get_items",
                 "get_restaurant_orders"}
OnCategory == {"update_category", "delete_category"}
OnItem == {"update_item", "delete_item", "menu_sides.create_side", "sides.create_side", "get_sides"}
OnSide == {"menu_sides.update_side", "menu_sides.delete_side"}
OnSideOfItem == {"sides.update_side", "sides.delete_side"}
OnOrder == {"update_order_status"}
GatedOps == OnRestaurant \cup OnCategory \cup OnItem \cup OnSide \cup OnSideOfItem \cup OnOrder

\* update_order_status looks the order up only once the status is accepted.
Gated(r) == r.op \in GatedOps /\ (r.op \in OnOrder => StatusValid(r.status))

TargetStored(r) ==
    CASE r.op \in OnRestaurant -> r.target[1] \in DOMAIN restaurants
      [] r.op \in OnCategory -> CategoryLookup(r.target[1])
      [] r.op \in OnItem -> ItemLookup(r.target[1])
      [] r.op \in OnSide -> SideLookup(r.target[1])
      [] r.op \in OnSideOfItem -> ItemLookup(r.target[1]) /\ SideOfItem(r.target[2], r.target[1])
      [] r.op \in OnOrder -> OrderLookup(r.order_id)
      [] OTHER -> FALSE

TargetOwner(r) ==
    CASE r.op \in OnRestaurant -> restaurants[r.target[1]].owner_id
      [] r.op \in OnCategory -> CategoryOwner(r.target[1])
      [] r.op \in OnItem \cup OnSideOfItem -> ItemOwner(r.target[1])
      [] r.op \in OnSide -> SideOwner(r.target[1])
      [] r.op \in OnOrder -> OrderOwner(r.order_id)

\* C13: an owner-gated request whose lookups do not raise is answered 403 when
\* the entity it names is stored and its restaurant has another owner, and 404
\* when the entity is not stored.
C13_ForbiddenIffStoredElseNotFound ==
    [][(Gated(resp') /\ resp'.fault = "none") =>
          IF TargetStored(resp')
            THEN TargetOwner(resp') # resp'.user => resp'.code = HTTP_403_FORBIDDEN
            ELSE resp'.code = HTTP_404_NOT_FOUND]_vars

----------------------------------------------------------------------------
\* The row the ownership lookup of a request reads: the entity the request
\* names, and for the sides of sides.service the menu item of the path.
OwnerRowFound(r) ==
    IF r.op \in OnSideOfItem THEN ItemLookup(r.target[1]) ELSE TargetStored(r)

\* The ownership lookup raised, found no row, or found another owner.
OwnershipDenied(r) ==
    \/ r.fault = "lookup"
    \/ ~OwnerRowFound(r)
    \/ TargetOwner(r) # r.user

\* C14: an owner-gated request whose ownership lookup raises, finds no row or
\* finds another owner writes nothing to the catalog or the orders, returns no
\* row, and is answered 403 or 404; so whoever changes a catalog row or an
\* order status owns the restaurant.
C14_OwnershipFailsClosed ==
    [][(Gated(resp') /\ OwnershipDenied(resp')) =>
          /\ UNCHANGED <<catalogVars, orderVars>>
          /\ resp'.seen = {}
          /\ resp'.items = <<>>
          /\ resp'.code \in {HTTP_403_FORBIDDEN, HTTP_404_NOT_FOUND}]_vars

\* The owner's own create_category is refused because the lookup raised.
C14_Witness ==
    /\ resp.op = "create_category"
    /\ resp.fault = "lookup"
    /\ resp.target[1] \in DOMAIN restaurants
    /\ restaurants[resp.target[1]].owner_id = resp.user
    /\ resp.code = HTTP_403_FORBIDDEN

----------------------------------------------------------------------------
\* C15: every stored menu item is of the restaurant of the category its
\* category_id refers to.
C15_ItemInCategoryOfItsRestaurant ==
    \A i \in DOMAIN menu_items :
        menu_items[i].category_id \in DOMAIN menu_categories =>
            menu_categories[menu_items[i].category_id].restaurant_id = menu_items[i].restaurant_id

----------------------------------------------------------------------------
\* The extension of a filename with a dot: what follows its last dot, in
\* lower case.  A filename with no dot has no extension.
UploadOps == {"upload_file_to_storage", "upload_menu_image_with_signed_url"}

HasDot(text) == \E i \in 1..Len(text) : text[i] = "."

ExtensionOf(text) ==
    LET i == CHOOSE k \in 1..Len(text) : text[k] = "." /\ \A j \in (k + 1)..Len(text) : text[j] # "."
    IN  lower(SubSeq(text, i + 1, Len(text)))

----------------------------------------------------------------------------
\* A public menu was returned, every query having answered; the restaurant is
\* the one of the slug.
MenuReturned ==
    /\ resp.op = "get_public_menu_by_slug"
    /\ resp.code = HTTP_200_OK

MenuRestaurant == CHOOSE r \in DOMAIN restaurants : restaurants[r].slug = resp.status

MenuItemsOfRestaurant(category) ==
    {i \in DOMAIN menu_items : /\ menu_items[i].restaurant_id = MenuRestaurant
                               /\ menu_items[i].is_available = 1
                               /\ menu_items[i].category_id = category}

SidesOfItem(item_id) ==
    {x \in DOMAIN menu_item_sides : menu_item_sides[x].menu_item_id = item_id}

Ids(seq) == {seq[k].id : k \in 1..Len(seq)}

\* C17: the public menu lists exactly the active categories of the restaurant,
\* each once; under each, exactly the available items of the restaurant whose
\* category_id is the category's id, each once; so no unavailable item, no
\* item of an inactive category and no item of another restaurant; and each
\* listed item has all its sides, each once, by ascending position.
C17_PublicMenuContents ==
    (MenuReturned /\ resp.fault = "none") =>
        LET menu == resp.menu
        IN  /\ {menu[k].category_id : k \in 1..Len(menu)} =
                  {c \in DOMAIN menu_categories :
                     /\ menu_categories[c].restaurant_id = MenuRestaurant
                     /\ menu_categories[c].is_active = 1}
            /\ \A k, l \in 1..Len(menu) : menu[k].category_id = menu[l].category_id => k = l
            /\ \A k \in 1..Len(menu) :
                  LET items == menu[k].items
                  IN  /\ Ids(items) = MenuItemsOfRestaurant(menu[k].category_id)
                      /\ Cardinality(Ids(items)) = Len(items)
                      /\ \A j \in 1..Len(items) :
                            LET item == menu_items[items[j].id]
                                sides == items[j].sides
                            IN  /\ item.is_available = 1
                                /\ item.restaurant_id = MenuRestaurant
                                /\ menu_categories[item.category_id].is_active = 1
                                /\ Ids(sides) = SidesOfItem(items[j].id)
                                /\ Cardinality(Ids(sides)) = Len(sides)
                                /\ \A a, b \in 1..Len(sides) :
                                      a < b => menu_item_sides[sides[a].id].position <=
                                               menu_item_sides[sides[b].id].position

\* The menu of restaurant 1 lists item 1 with side 2 (position 0) before side
\* 1 (position 1), while item 2 is unavailable, category 3 is inactive and
\* item 3, of restaurant 2, names category 1.
C17_Witness ==
    /\ MenuReturned /\ resp.fault = "none" /\ resp.status = "r1"
    /\ menu_items[2].is_available = 0
    /\ menu_categories[3].is_active = 0
    /\ menu_items[3].category_id = 1
    /\ Len(resp.menu) = 1
    /\ Len(resp.menu[1].items) = 1
    /\ resp.menu[1].items[1].id = 1
    /\ Len(resp.menu[1].items[1].sides) = 2
    /\ resp.menu[1].items[1].sides[1].id = 2
    /\ menu_item_sides[1].position = 1

----------------------------------------------------------------------------
MenuAnswered == resp.op = "get_public_menu_by_slug"

MenuActiveCategories ==
    {c \in DOMAIN menu_categories : /\ menu_categories[c].restaurant_id = MenuRestaurant
                                    /\ menu_categories[c].is_active = 1}

\* C18, as stated: get_public_menu_by_slug fails only with 404, also when the
\* restaurant lookup itself raises; a failure of the categories or of the
\* items query leaves the request answered.
C18_OnlyNotFoundFails ==
    MenuAnswered =>
        /\ resp.code \in {HTTP_200_OK, HTTP_404_NOT_FOUND}
        /\ resp.fault = "restaurant" => resp.code = HTTP_404_NOT_FOUND

\* C18, amended: a failure of the categories or of the items query never fails
\* the request: the menu is empty, or every category has no item.  The
\* request fails with 404 when the lookup finds no active restaurant of the
\* slug, and with 500 when the lookup raises another error; it fails in no
\* other case.
C18_MenuDegrades ==
    MenuAnswered =>
        /\ resp.code \in {HTTP_200_OK, HTTP_404_NOT_FOUND, HTTP_500_INTERNAL_SERVER_ERROR}
        /\ resp.code = HTTP_500_INTERNAL_SERVER_ERROR <=> resp.fault = "restaurant"
        /\ resp.fault # "restaurant" =>
              (resp.code = HTTP_404_NOT_FOUND <=> ActiveBySlug(restaurants, resp.status, FALSE) = {})
        /\ (resp.code = HTTP_200_OK /\ resp.fault = "categories") => resp.menu = <<>>
        /\ (resp.code = HTTP_200_OK /\ resp.fault = "items") =>
              /\ {resp.menu[k].category_id : k \in 1..Len(resp.menu)} = MenuActiveCategories
              /\ \A k \in 1..Len(resp.menu) : resp.menu[k].items = <<>>

\* The items query raised: the active category is listed, without the
\* available item it has.
C18_Witness ==
    /\ MenuReturned /\ resp.fault = "items" /\ resp.status = "r1"
    /\ Len(resp.menu) > 0
    /\ MenuItemsOfRestaurant(resp.menu[1].category_id) # {}
    /\ resp.menu[1].items = <<>>

----------------------------------------------------------------------------
\* The public lookups of a restaurant, the select list of each, and the
\* stores that differ from the current one in owner-only columns of a
\* restaurant: its owner and its date of creation.
LookupOps == {"public.get_public_restaurant_by_slug", "restaurants.get_public_restaurant_by_slug"}

LookupAnswered == resp.op \in LookupOps /\ resp.fault = "none"

AllowList == IF resp.op = "public.get_public_restaurant_by_slug"
               THEN {"name", "slug", "phone"}
               ELSE {"id", "name", "slug", "phone", "email"}

WantsOnboarded == resp.op = "restaurants.get_public_restaurant_by_slug"

StoredSlug(slug) == {r \in DOMAIN restaurants : restaurants[r].slug = slug}

LookupOver(table) ==
    IF WantsOnboarded THEN restaurants_public_restaurant(table, resp.status, resp.fault)
                      ELSE public_restaurant(table, resp.status, resp.fault)

OwnerVariants ==
    {[r \in DOMAIN restaurants |->
         IF r = 1 THEN [restaurants[r] EXCEPT !.owner_id = owner_id, !.created_at = created_at]
                  ELSE restaurants[r]] : owner_id \in Users, created_at \in Bool}

\* C19, as stated: a public lookup by slug answers 404 for an absent or
\* inactive restaurant, and for an active one a body of exactly the fields of
\* its allow-list, which has no owner_id; stores that differ only in
\* owner-only columns get the same response.
C19_ActiveRestaurantProjected ==
    LookupAnswered =>
        LET stored == StoredSlug(resp.status)
            active == {r \in stored : restaurants[r].is_active = 1}
        IN  /\ active = {} => resp.code = HTTP_404_NOT_FOUND
            /\ active # {} =>
                  /\ resp.code = HTTP_200_OK
                  /\ DOMAIN resp.body = AllowList
                  /\ "owner_id" \notin DOMAIN resp.body
            /\ \A table \in OwnerVariants :
                  LookupOver(table).code = resp.code /\ LookupOver(table).body = resp.body

\* C19, amended: as stated, where the lookup of restaurants.service takes a
\* restaurant that is not onboarded for absent: it answers 404.
C19_ListedRestaurantProjected ==
    LookupAnswered =>
        LET stored == StoredSlug(resp.status)
            listed == {r \in stored : /\ restaurants[r].is_active = 1
                                      /\ WantsOnboarded => restaurants[r].is_onboarded = 1}
        IN  /\ listed = {} => resp.code = HTTP_404_NOT_FOUND /\ resp.body = NoResp.body
            /\ listed # {} =>
                  /\ resp.code = HTTP_200_OK
                  /\ DOMAIN resp.body = AllowList
                  /\ "owner_id" \notin DOMAIN resp.body
                  /\ \A r \in listed : \A c \in AllowList \ {"id"} : resp.body[c] = restaurants[r][c]
            /\ \A table \in OwnerVariants :
                  LookupOver(table).code = resp.code /\ LookupOver(table).body = resp.body

\* Restaurant 1, of u2 in this store, is returned by the public lookup.
C19_Witness ==
    /\ resp.op = "public.get_public_restaurant_by_slug"
    /\ resp.status = "r1"
    /\ restaurants[1].owner_id = "u2"
    /\ restaurants[1].is_onboarded = 0
    /\ resp.code = HTTP_200_OK
    /\ resp.body = [name |-> "r1", slug |-> "r1", phone |-> "p"]

\* Tokens the verifier rejects, resolves to no user, or cannot verify.
BadTokens == {token \in Tokens : get_user(token).raised \/ get_user(token).user = "-"}

\* C20: a non-public operation invoked with a bearer token that the identity
\* verifier rejects, resolves to no user, or cannot verify answers 401 with
\* the header WWW-Authenticate: Bearer, leaves every table and the storage
\* as they were, and its response carries nothing read from them.
C20_BadTokenIsUnauthorized ==
    [][bearer' \in BadTokens =>
          /\ resp'.code = HTTP_401_UNAUTHORIZED
          /\ resp'.header = "Bearer"
          /\ UNCHANGED <<catalogVars, orderVars>>
          /\ resp'.seen = NoResp.seen /\ resp'.items = NoResp.items
          /\ resp'.body = NoResp.body /\ resp'.object = NoResp.object
          /\ resp'.data = NoResp.data]_vars

\* After a category was created with a valid token, a request whose token
\* resolves to no user was answered 401.
C20_Witness ==
    /\ bearer = "nouser"
    /\ resp.code = HTTP_401_UNAUTHORIZED /\ resp.header = "Bearer"
    /\ Cardinality(DOMAIN menu_categories) > 2

\* The menu-image upload stored its object and the signing that follows did
\* not give a signed URL: the call raised ("url") or its response carried
\* none ("unsigned").
SigningFailed ==
    /\ resp.op = "upload_menu_image_with_signed_url"
    /\ resp.fault \in {"url", "unsigned"}
    /\ validate_file([filename |-> resp.arg, size |-> resp.size]).ok
    /\ ~too_large(resp.size)

SigningSucceeded ==
    /\ resp.op = "upload_menu_image_with_signed_url"
    /\ resp.fault = "none"
    /\ validate_file([filename |-> resp.arg, size |-> resp.size]).ok
    /\ ~too_large(resp.size)

\* C21: the menu-image upload returns a signed URL of expiry 3600 seconds
\* when signing succeeds, and whenever signing fails after the upload, by an
\* error or by a response without signed URL, it answers with the public
\* URL of the object and not with an error.
C21_SigningFailureFallsBack ==
    /\ SigningSucceeded =>
          /\ resp.code = HTTP_200_OK
          /\ resp.url = [kind |-> "signed", expires_in |-> 3600]
    /\ SigningFailed =>
          /\ resp.code = HTTP_200_OK
          /\ resp.url.kind = "public"

\* The order endpoints of the HTTP surface, as method followed by path.
OrderEndpoints ==
    {<<"POST", "orders">>, <<"GET", "public", "orders", "1">>,
     <<"GET", "restaurants", "1", "orders">>, <<"PATCH", "orders", "1", "status">>}

\* C22: a request to one of the order endpoints (POST /orders,
\* GET /public/orders/{order_code}, GET /restaurants/{id}/orders,
\* PATCH /orders/{id}/status) is dispatched to the order service and never
\* answered by the router with 404.
C22_OrderEndpointsDispatched ==
    ~(resp.op = "app" /\ resp.code = HTTP_404_NOT_FOUND /\ resp.target \in OrderEndpoints)

\* The call of c ends in this step after its order row was inserted, on an
\* insert of step 5 or on a failing total update of step 6.
FailedAfterInsert(c) ==
    /\ calls'[c].pc = "idle"
    /\ \/ calls[c].pc \in {"step5", "step5_side"}
       \/ calls[c].pc = "step6" /\ resp'.fault = "store"

\* A create_order call is still working on the order.
InFlight(order_id) == \E c \in Callers : calls[c].pc # "idle" /\ calls[c].order_id = order_id

\* The rows of a table stay, unchanged.
RowsKept(table, table_after) ==
    \A k \in DOMAIN table : k \in DOMAIN table_after /\ table_after[k] = table[k]

\* The failing step: an error response, no row of the order tables touched,
\* the order row there with total 0 and the lines inserted so far attached.
PartialOrderLeft(c) ==
    LET order_id == calls[c].order_id IN
    /\ resp'.op = "create_order"
    /\ resp'.code \in {HTTP_400_BAD_REQUEST, HTTP_500_INTERNAL_SERVER_ERROR}
    /\ UNCHANGED orderVars
    /\ order_id \in DOMAIN orders
    /\ orders[order_id].total_amount = 0
    /\ \A i \in 1..Len(calls[c].items) :
          /\ calls[c].items[i] \in DOMAIN order_items
          /\ order_items[calls[c].items[i]].order_id = order_id

C24_StatusTestedBeforeOwnership ==
    [][/\ (resp'.op = "update_order_status" /\ ~StatusValid(resp'.status)) =>
             /\ resp'.code = HTTP_400_BAD_REQUEST
             /\ resp'.detail = "Invalid status"
             /\ resp' # resp => orders' = orders
       /\ \A o \in DOMAIN orders :
             (o \in DOMAIN orders' /\ orders'[o].status # orders[o].status) =>
                 /\ resp'.op = "update_order_status" /\ resp'.order_id = o
                 /\ StatusValid(resp'.status)
                 /\ OrderLookup(o) /\ IsOwner(resp'.user, o)
                 /\ resp'.fault # "lookup"]_vars

\* A user who owns no order asked for an invalid status on an order that is
\* not stored, while the lookup would have raised: the answer is 400.
C24_Witness ==
    /\ resp.op = "update_order_status"
    /\ resp.status = "delivered"
    /\ resp.order_id \notin DOMAIN orders
    /\ resp.fault = "lookup"
    /\ resp.code = HTTP_400_BAD_REQUEST
    /\ orders # <<>>

\* The submission passes the item and side checks of steps 2 and 3.
Accepted(data) ==
    /\ ItemsFound(data) /\ ItemsBelong(data)
    /\ all_sides(data) = <<>> \/ (SidesFound(data) /\ SidesBelong(data))

\* C25: the restaurant check of create_order asks only that the restaurant
\* exists: a submission that passes the item and side checks creates its
\* order when the restaurant is stored, active or not, and a submission for
\* a restaurant that is not stored, or whose lookup raises, is answered 404
\* with nothing inserted.
C25_RestaurantNeedOnlyExist ==
    [][/\ (resp'.op = "create_order" /\ resp'.fault = "none"
             /\ resp'.data.restaurant_id \in DOMAIN restaurants /\ Accepted(resp'.data)) =>
             /\ resp'.code = HTTP_201_CREATED
             /\ resp'.order_id \in DOMAIN orders'
             /\ orders'[resp'.order_id].restaurant_id = resp'.data.restaurant_id
       /\ (resp'.op = "create_order" /\ resp'.data.restaurant_id \notin DOMAIN restaurants) =>
             /\ resp'.code = HTTP_404_NOT_FOUND
             /\ orders' = <<>> /\ order_items' = <<>> /\ order_item_sides' = <<>>
       /\ \A c \in Callers : (calls[c].pc = "step1" /\ resp'.fault = "store") =>
             /\ resp'.code = HTTP_404_NOT_FOUND
             /\ UNCHANGED orderVars]_vars

\* An order was created for a restaurant that is stored and not active.
C25_Witness ==
    /\ resp.op = "create_order" /\ resp.code = HTTP_201_CREATED
    /\ restaurants[resp.data.restaurant_id].is_active = 0
    /\ resp.order_id \in DOMAIN orders
    /\ orders[resp.order_id].restaurant_id = resp.data.restaurant_id

\* The call of c ends in this step, in one of the validation steps 1 to 3.
RejectedInValidation(c) == calls[c].pc \in {"step1", "step2", "step3"} /\ calls'[c].pc = "idle"

\* The submission names an absent restaurant, an item that is unknown or of
\* another restaurant, or a side that is unknown or of another item.
Invalid(data) ==
    \/ data.restaurant_id \notin DOMAIN restaurants
    \/ ~ItemRefsValid(data)
    \/ HasBadSide(data)

\* C26: a create_order call that ends in steps 1 to 3 has inserted no row:
\* the rejecting step leaves orders, order_items and order_item_sides as they
\* were, no step of the call before it wrote them, and a submission with an
\* absent restaurant, an unknown or foreign item or an unknown or foreign
\* side is always rejected there.
C26_RejectionWritesNothing ==
    [][/\ \A c \in Callers : RejectedInValidation(c) =>
             /\ resp'.op = "create_order" /\ resp'.order_id = 0
             /\ resp'.code \in {HTTP_404_NOT_FOUND, HTTP_400_BAD_REQUEST,
                                HTTP_500_INTERNAL_SERVER_ERROR}
             /\ UNCHANGED orderVars
             /\ orders = <<>> /\ order_items = <<>> /\ order_item_sides = <<>>
       /\ \A c \in Callers : (calls[c].pc # "idle" /\ Invalid(calls[c].data)) =>
             /\ calls'[c].pc \in {"idle", "step1", "step2", "step3"}
             /\ UNCHANGED orderVars
             /\ orders = <<>> /\ order_items = <<>> /\ order_item_sides = <<>>]_vars

\* An item of the other restaurant was refused with 400 and nothing is stored.
C26_Witness ==
    /\ resp.op = "create_order" /\ resp.code = HTTP_400_BAD_REQUEST
    /\ resp.detail = "Menu item does not belong to this restaurant"
    /\ resp.data.restaurant_id \in DOMAIN restaurants
    /\ ~ItemRefsValid(resp.data)
    /\ orders = <<>> /\ order_items = <<>> /\ order_item_sides = <<>>

\* The sum over the lines of a submission, as create_order accumulates it.
SubmittedTotal(data) == SumSeq([i \in 1..Len(data.items) |-> item_total(data.items[i])])

\* The call of c takes this step.
Steps(c) == calls'[c] # calls[c]

\* The order items stored for an order.
LinesOf(order_id) == {k \in DOMAIN order_items : order_items[k].order_id = order_id}

\* C27: under every interleaving of two create_order calls, a call that
\* completes leaves its order with the sum of its own lines as total_amount;
\* every order item a call inserted is a row of one of its own lines under
\* its own order, and every order side it inserts is under its own order
\* item; a step of a call changes no order but its own.
C27_ConcurrentCallsApart ==
    [][\A c \in Callers :
          LET call == calls[c] IN
          /\ \A i \in 1..Len(call.items) :
                /\ call.items[i] \in DOMAIN order_items
                /\ order_items[call.items[i]].order_id = call.order_id
                /\ order_items[call.items[i]].menu_item_id = call.data.items[i].menu_item_id
                /\ order_items[call.items[i]].total_price = Float(item_total(call.data.items[i]))
          /\ \A d \in Callers \ {c} :
                (call.order_id # 0 /\ calls[d].order_id # 0) => call.order_id # calls[d].order_id
          /\ Steps(c) =>
                /\ \A o \in DOMAIN orders :
                      o # call.order_id => o \in DOMAIN orders' /\ orders'[o] = orders[o]
                /\ \A k \in DOMAIN order_items' \ DOMAIN order_items :
                      order_items'[k].order_id = call.order_id
                /\ \A s \in DOMAIN order_item_sides' \ DOMAIN order_item_sides :
                      /\ order_item_sides'[s].order_item_id = call.order_item_id
                      /\ order_items[call.order_item_id].order_id = call.order_id
                /\ (call.pc = "step6" /\ resp'.code = HTTP_201_CREATED) =>
                      /\ orders'[call.order_id].total_amount = Float(SubmittedTotal(call.data))
                      /\ LinesOf(call.order_id) = Range(call.items)
                      /\ Len(call.items) = Len(call.data.items)]_vars

\* Both calls have completed, each order with its own total and its own lines.
C27_Witness ==
    /\ \A c \in Callers : calls[c].pc = "idle"
    /\ DOMAIN orders = {1, 2}
    /\ orders[1].total_amount # 0 /\ orders[2].total_amount # 0
    /\ orders[1].total_amount # orders[2].total_amount
    /\ orders[1].restaurant_id # orders[2].restaurant_id
    /\ \E k \in LinesOf(1) : k > Min(LinesOf(2))
    /\ \E k \in LinesOf(2) : k > Min(LinesOf(1))

\* The call of c writes its total in this step and returns its order.
Finalizes(c) ==
    /\ calls[c].pc = "step6" /\ calls'[c].pc = "idle"
    /\ resp'.op = "create_order" /\ resp'.fault = "none"

\* C28: when the owner's update_order_status ran between the insert of an
\* order and the final total update of its create_order call, that update
\* writes only total_amount: the stored status stays the owner's value and
\* the stored total_amount becomes the computed sum.
C28_TotalUpdateKeepsStatus ==
    [][\A c \in Callers : Finalizes(c) =>
          LET order_id == calls[c].order_id IN
          /\ orders'[order_id].status = orders[order_id].status
          /\ orders'[order_id].restaurant_id = orders[order_id].restaurant_id
          /\ orders'[order_id].total_amount = Float(SubmittedTotal(calls[c].data))
          /\ resp'.status = orders[order_id].status
          /\ \A o \in DOMAIN orders \ {order_id} : orders'[o] = orders[o]]_vars

\* The owner confirmed the order while create_order was running; the call
\* has returned and the order is stored confirmed, with the computed total.
C28_Witness ==
    /\ resp.op = "create_order" /\ resp.code = HTTP_201_CREATED
    /\ resp.order_id \in DOMAIN orders
    /\ orders[resp.order_id].status = "confirmed"
    /\ orders[resp.order_id].total_amount = Float(SubmittedTotal(resp.data))
    /\ orders[resp.order_id].total_amount # 0
    /\ \A c \in Callers : calls[c].pc = "idle"

\* The user owns the restaurant of the menu item.
Owns(user_id, item_id) ==
    /\ item_id \in DOMAIN menu_items
    /\ menu_items[item_id].restaurant_id \in DOMAIN restaurants
    /\ restaurants[menu_items[item_id].restaurant_id].owner_id = user_id

CreateSideOps == {"menu_sides.create_side", "sides.create_side"}

\* C29: POST /menu/items/{item_id}/sides creates the side under the menu
\* item of the path and tests the ownership of that item, whatever
\* menu_item_id the body carries: a side is created only under an item of a
\* restaurant of the caller, and a caller who does not own the item of the
\* path is answered 403 with no side created.
C29_SideCreatedUnderPathItem ==
    [][/\ \A s \in DOMAIN menu_item_sides' \ DOMAIN menu_item_sides :
             /\ resp'.op \in CreateSideOps
             /\ menu_item_sides'[s].menu_item_id = request'.item_id
             /\ Owns(resp'.user, menu_item_sides'[s].menu_item_id)
       /\ (resp'.op \in CreateSideOps /\ ~Owns(resp'.user, request'.item_id)) =>
             /\ resp'.code = HTTP_403_FORBIDDEN
             /\ menu_item_sides' = menu_item_sides]_vars

\* The body named the item of the other restaurant, the path the caller's
\* item: the side was created under the item of the path.
C29_Witness ==
    /\ resp.op = "menu_sides.create_side" /\ resp.code = HTTP_200_OK
    /\ request.body_item # request.item_id
    /\ ~Owns(resp.user, request.body_item)
    /\ Owns(resp.user, request.item_id)
    /\ \E s \in DOMAIN menu_item_sides :
          s > 3 /\ menu_item_sides[s].menu_item_id = request.item_id

NestedSideOps == {"sides.update_side", "sides.delete_side"}

\* C30: update_side and delete_side of the nested sides router change or
\* delete a side only for a caller who owns the restaurant of the menu item
\* of the path and when the side is a side of that item; a caller who owns
\* the item of the path and names a side of another item is answered 404
\* (403 when the ownership lookup itself raises) and the side stays as it was.
C30_SideChangedUnderPathItem ==
    [][/\ \A s \in DOMAIN menu_item_sides :
             (s \notin DOMAIN menu_item_sides' \/ menu_item_sides'[s] # menu_item_sides[s]) =>
                 /\ resp'.op \in NestedSideOps
                 /\ resp'.target = <<menu_item_sides[s].menu_item_id, s>>
                 /\ Owns(resp'.user, menu_item_sides[s].menu_item_id)
       /\ (/\ resp'.op \in NestedSideOps
           /\ Owns(resp'.user, resp'.target[1])
           /\ resp'.target[2] \in DOMAIN menu_item_sides
           /\ menu_item_sides[resp'.target[2]].menu_item_id # resp'.target[1]) =>
             /\ resp'.fault # "lookup" => resp'.code = HTTP_404_NOT_FOUND
             /\ resp'.code \in {HTTP_404_NOT_FOUND, HTTP_403_FORBIDDEN}
             /\ menu_item_sides' = menu_item_sides]_vars

\* The owner of item 1 named, under item 1, a side of an item of the other
\* restaurant: 404, and the side is still there.
C30_Witness ==
    /\ resp.op \in NestedSideOps /\ resp.code = HTTP_404_NOT_FOUND /\ resp.fault = "none"
    /\ Owns(resp.user, resp.target[1])
    /\ resp.target[2] \in DOMAIN menu_item_sides
    /\ ~Owns(resp.user, menu_item_sides[resp.target[2]].menu_item_id)

====
